---- MODULE Spec2Model ----
(***************************************************************************)
(* Commax wallpad bridge (CommaxWallpadAddon/apps/main.py): the command    *)
(* dispatch / retry queue, the inbound-frame path, the expected-state      *)
(* predictor, the encoder and the gateway watchdog of WallpadController.   *)
(*                                                                         *)
(* Representation.  A frame ("16-character hex string") is the sequence of *)
(* its 8 bytes; a single hex byte string taken from the schema ("B0") is   *)
(* the sequence of its characters, so that int(x, 16) and byte_to_hex_str  *)
(* are real conversions.  Python index p is TLA+ index p + 1.  Time is in  *)
(* milliseconds.                                                           *)
(***************************************************************************)
EXTENDS Integers, Sequences, FiniteSets, TLC

\* ------------------------------------------------------------------ bounds
\* Number of control-plane requests accepted during a run.
MaxCommands == 2

\* Number of control-plane requests handled during a run of the encoding and
\* schema specifications: these keep the refused ones too.
MaxRequests == 2

\* --------------------------------------------------------- configuration
\* config["max_send_count"] (default 20), the retransmission ceiling.
max_send_count == 3
\* config["min_receive_count"] (default 3), the confirmation threshold.
min_receive_count == 2

\* ------------------------------------------------------------ hex helpers
HexDigits ==
    <<"0", "1", "2", "3", "4", "5", "6", "7",
      "8", "9", "A", "B", "C", "D", "E", "F">>

\* utils.byte_to_hex_str: one byte as two upper-case hex characters.
byte_to_hex_str(b) == <<HexDigits[(b \div 16) + 1], HexDigits[(b % 16) + 1]>>

\* The value of one hex character, either case, as int(c, 16) reads it.
HexCharVal(c) ==
    CASE c = "0" -> 0  [] c = "1" -> 1  [] c = "2" -> 2  [] c = "3" -> 3
      [] c = "4" -> 4  [] c = "5" -> 5  [] c = "6" -> 6  [] c = "7" -> 7
      [] c = "8" -> 8  [] c = "9" -> 9
      [] c \in {"A", "a"} -> 10  [] c \in {"B", "b"} -> 11
      [] c \in {"C", "c"} -> 12  [] c \in {"D", "d"} -> 13
      [] c \in {"E", "e"} -> 14  [] c \in {"F", "f"} -> 15

\* int(h, 16) for a hex string h given as its characters.
RECURSIVE HexToInt(_)
HexToInt(h) ==
    IF h = <<>> THEN 0
    ELSE 16 * HexToInt(SubSeq(h, 1, Len(h) - 1)) + HexCharVal(h[Len(h)])

RECURSIVE SumSeq(_)
SumSeq(s) == IF s = <<>> THEN 0 ELSE Head(s) + SumSeq(Tail(s))

\* The failure marker (Python None) of the functions that return a frame.
NoFrame == <<>>

\* utils.checksum: the first 7 bytes followed by their sum modulo 256; the
\* failure marker when fewer than 7 bytes are given.
checksum(data) ==
    IF Len(data) < 7 THEN NoFrame
    ELSE SubSeq(data, 1, 7) \o <<SumSeq(SubSeq(data, 1, 7)) % 256>>

\* A 7-byte packet (bytearray(7)) with the given bytes set, the rest zero.
Packet7(f) == [i \in 1..7 |-> IF i \in DOMAIN f THEN f[i] ELSE 0]

\* ----------------------------------------------------------------- schema
\* One position of a packet structure.
Field(n, v) == [name |-> n, values |-> v]
NoValues == [x \in {} |-> <<>>]

LightCommandStructure ==
    (1 :> Field("deviceId", NoValues)) @@
    (2 :> Field("power", ("on" :> <<"0", "1">>) @@ ("off" :> <<"0", "0">>))) @@
    (3 :> Field("empty", NoValues))

LightStateStructure ==
    (1 :> Field("power", ("on" :> <<"0", "1">>) @@ ("off" :> <<"0", "0">>))) @@
    (2 :> Field("deviceId", NoValues)) @@
    (3 :> Field("empty", NoValues))

ThermoCommandStructure ==
    (1 :> Field("deviceId", NoValues)) @@
    (2 :> Field("commandType",
                ("power" :> <<"0", "4">>) @@ ("change" :> <<"0", "3">>))) @@
    (3 :> Field("value", ("on" :> <<"8", "1">>) @@ ("off" :> <<"0", "0">>)))

ThermoStateStructure ==
    (1 :> Field("power", ("idle" :> <<"8", "1">>) @@ ("heating" :> <<"8", "3">>)
                         @@ ("off" :> <<"8", "0">>))) @@
    (2 :> Field("deviceId", NoValues)) @@
    (3 :> Field("currentTemp", NoValues)) @@
    (4 :> Field("targetTemp", NoValues))

FanCommandStructure ==
    (1 :> Field("deviceId", NoValues)) @@
    (2 :> Field("commandType",
                ("power" :> <<"0", "1">>) @@ ("setSpeed" :> <<"0", "2">>))) @@
    (3 :> Field("value", ("off" :> <<"0", "0">>) @@ ("on" :> <<"0", "4">>)
                         @@ ("low" :> <<"0", "1">>) @@ ("medium" :> <<"0", "2">>)
                         @@ ("high" :> <<"0", "3">>)))

FanStateStructure ==
    (1 :> Field("power", ("off" :> <<"0", "0">>) @@ ("on" :> <<"0", "4">>))) @@
    (2 :> Field("deviceId", NoValues)) @@
    (3 :> Field("speed", ("1" :> <<"0", "1">>) @@ ("2" :> <<"0", "2">>)
                         @@ ("3" :> <<"0", "3">>)))

\* The table that keeps the last position of a repeated name.
FieldPositionsLast(structure) ==
    LET names == {structure[p].name : p \in DOMAIN structure} \ {"empty"}
        last(n) == CHOOSE p \in DOMAIN structure :
                       /\ structure[p].name = n
                       /\ \A q \in DOMAIN structure :
                             structure[q].name = n => p >= q
    IN  [n \in names |-> last(n)]

\* load_devices_and_packets_structures: name -> position for every field
\* whose name is not "empty"; on a repeated name the first position stays.
FieldPositions(structure) ==
    LET names == {structure[p].name : p \in DOMAIN structure} \ {"empty"}
        first(n) == CHOOSE p \in DOMAIN structure :
                        /\ structure[p].name = n
                        /\ \A q \in DOMAIN structure :
                              structure[q].name = n => p <= q
    IN  [n \in names |-> first(n)]

PacketSchema(h, s) ==
    [header |-> h, structure |-> s, fieldPositions |-> FieldPositions(s)]

\* The schema document of the run, after load_devices_and_packets_structures.
CommaxStructure ==
    [Light  |-> [command |-> PacketSchema(<<"3", "1">>, LightCommandStructure),
                 state   |-> PacketSchema(<<"B", "0">>, LightStateStructure)],
     Thermo |-> [command |-> PacketSchema(<<"0", "4">>, ThermoCommandStructure),
                 state   |-> PacketSchema(<<"8", "2">>, ThermoStateStructure)],
     Fan    |-> [command |-> PacketSchema(<<"7", "8">>, FanCommandStructure),
                 state   |-> PacketSchema(<<"F", "6">>, FanStateStructure)]]

\* The iteration order of DEVICE_STRUCTURE.items().
DeviceOrder == <<"Light", "Thermo", "Fan">>

\* DEVICE_STRUCTURE = None
NoSchema == [none |-> TRUE]

\* The packet types load_devices_and_packets_structures visits per device.
PacketTypes == <<"command", "state">>

\* The number of packets of the schema document.
NPackets == Len(DeviceOrder) * Len(PacketTypes)

\* The place of a packet in the order the loader visits them.
PacketIndex(device, packet_type) ==
    LET i == CHOOSE i \in DOMAIN DeviceOrder : DeviceOrder[i] = device
        j == CHOOSE j \in DOMAIN PacketTypes : PacketTypes[j] = packet_type
    IN  (i - 1) * Len(PacketTypes) + j

\* The document as yaml.safe_load returns it: no packet has fieldPositions.
RawPacket(packet) == [k \in {"header", "structure"} |-> packet[k]]

\* DEVICE_STRUCTURE between the assignment of the loaded document and the end
\* of the loop that builds the fieldPositions: the first k packets have them.
Structures ==
    [k \in 0..NPackets |->
        [d \in DOMAIN CommaxStructure |->
            [t \in DOMAIN CommaxStructure[d] |->
                IF PacketIndex(d, t) <= k THEN CommaxStructure[d][t]
                ELSE RawPacket(CommaxStructure[d][t])]]]

\* -------------------------------------------------------------- predictor
\* sorted(required_bytes)
RECURSIVE Insert(_, _)
Insert(x, s) ==
    IF s = <<>> THEN <<x>>
    ELSE IF x <= Head(s) THEN <<x>> \o s
    ELSE <<Head(s)>> \o Insert(x, Tail(s))

RECURSIVE Sorted(_)
Sorted(s) == IF s = <<>> THEN <<>> ELSE Insert(Head(s), Sorted(Tail(s)))

\* dict.get(key, default)
Get(d, key, default) == IF key \in DOMAIN d THEN d[key] ELSE default

\* structure[pos]['values'][key] exists (no KeyError).
HasValue(structure, pos, key) ==
    /\ pos \in DOMAIN structure
    /\ key \in DOMAIN structure[pos].values

\* int(structure[pos]['values'][key], 16)
ValueOf(structure, pos, key) == HexToInt(structure[pos].values[key])

\* str(n) of a byte, as the key of a values table.
DecStr(n) ==
    IF n < 10 THEN HexDigits[n + 1]
    ELSE IF n < 100 THEN HexDigits[(n \div 10) + 1] \o HexDigits[(n % 10) + 1]
    ELSE HexDigits[(n \div 100) + 1] \o HexDigits[((n \div 10) % 10) + 1]
         \o HexDigits[(n % 10) + 1]

\* The failure marker (None) of generate_expected_state_packet.
NoExpected == [ok |-> FALSE, required_bytes |-> <<>>, possible_values |-> <<>>]

\* generate_expected_state_packet left by an exception: its except clause
\* formats locals that are not bound yet (device_type, command_packet,
\* required_bytes, state_structure, command_structure), and the
\* UnboundLocalError of that leaves the function.
PredictorRaised == [ok |-> FALSE, required_bytes |-> <<>>,
                    possible_values |-> <<>>, raised |-> TRUE]

\* ExpectedStatePacket(required_bytes=sorted(...), possible_values=...)
ExpectedStatePacket(required, possible) ==
    [ok |-> TRUE, required_bytes |-> Sorted(required), possible_values |-> possible]

\* possible_values left as it is.
SetPossibleNone(pv, pos, vals) ==
    IF pv = NoFrame \/ pos \notin 0..6 THEN NoFrame ELSE pv

\* possible_values[pos] holding one of the values only.
SetPossibleOne(pv, pos, vals) ==
    IF pv = NoFrame \/ pos \notin 0..6 THEN NoFrame
    ELSE [pv EXCEPT ![pos + 1] = {CHOOSE v \in vals : TRUE}]

\* possible_values[pos] = vals; IndexError (the failure marker) outside 0..6.
SetPossible(pv, pos, vals) ==
    IF pv = NoFrame \/ pos \notin 0..6 THEN NoFrame
    ELSE [pv EXCEPT ![pos + 1] = vals]

\* The first device in iteration order whose command header is byte 0 of the
\* packet: "" when there is none, "KeyError" when a device visited before a
\* match has no command packet.
RECURSIVE FindCommandDevice(_, _, _)
FindCommandDevice(ds, order, b0) ==
    IF order = <<>> THEN ""
    ELSE IF Head(order) \notin DOMAIN ds THEN FindCommandDevice(ds, Tail(order), b0)
    ELSE IF "command" \notin DOMAIN ds[Head(order)] THEN "KeyError"
    ELSE IF b0 = HexToInt(ds[Head(order)].command.header) THEN Head(order)
    ELSE FindCommandDevice(ds, Tail(order), b0)

\* The Thermo branch: required positions and acceptable values added to
\* (required, pv); the failure marker on a KeyError or IndexError.
ThermoExpected(cs, ss, cfp, sfp, pkt, required, pv) ==
    LET command_type_pos == Get(cfp, "commandType", 2)
        command_type == pkt[command_type_pos + 1]
        value_pos == Get(cfp, "value", 3)
        power_pos == Get(sfp, "power", 1)
        target_temp_pos == Get(sfp, "targetTemp", 4)
    IN  IF ~HasValue(cs, command_type_pos, "power") THEN NoExpected
        ELSE IF command_type = ValueOf(cs, command_type_pos, "power") THEN
            IF ~HasValue(cs, value_pos, "off") THEN NoExpected
            ELSE IF pkt[value_pos + 1] = ValueOf(cs, value_pos, "off") THEN
                IF ~HasValue(ss, power_pos, "off") THEN NoExpected
                ELSE LET p == SetPossible(pv, power_pos, {ss[power_pos].values["off"]})
                     IN  IF p = NoFrame THEN NoExpected
                         ELSE ExpectedStatePacket(Append(required, power_pos), p)
            ELSE
                IF ~(HasValue(ss, power_pos, "idle") /\ HasValue(ss, power_pos, "heating"))
                THEN NoExpected
                ELSE LET p == SetPossible(pv, power_pos,
                                  {ss[power_pos].values["idle"],
                                   ss[power_pos].values["heating"]})
                     IN  IF p = NoFrame THEN NoExpected
                         ELSE ExpectedStatePacket(Append(required, power_pos), p)
        ELSE IF ~HasValue(cs, command_type_pos, "change") THEN NoExpected
        ELSE IF command_type = ValueOf(cs, command_type_pos, "change") THEN
            LET p == SetPossible(pv, target_temp_pos,
                                 {byte_to_hex_str(pkt[value_pos + 1])})
            IN  IF p = NoFrame THEN NoExpected
                ELSE ExpectedStatePacket(Append(required, target_temp_pos), p)
        ELSE ExpectedStatePacket(required, pv)

\* The Light / LightBreaker branch.  The off code is looked up in the command
\* structure at the position of the state packet's power field.
LightExpected(cs, ss, cfp, sfp, pkt, required, pv) ==
    LET power_pos == Get(sfp, "power", 1)
        command_value == pkt[Get(cfp, "power", 2) + 1]
    IN  IF ~HasValue(cs, power_pos, "off") THEN NoExpected
        ELSE IF command_value = ValueOf(cs, power_pos, "off") THEN
            IF ~HasValue(ss, power_pos, "off") THEN NoExpected
            ELSE LET p == SetPossible(pv, power_pos, {ss[power_pos].values["off"]})
                 IN  IF p = NoFrame THEN NoExpected
                     ELSE ExpectedStatePacket(Append(required, power_pos), p)
        ELSE
            IF ~HasValue(ss, power_pos, "on") THEN NoExpected
            ELSE LET p == SetPossible(pv, power_pos, {ss[power_pos].values["on"]})
                 IN  IF p = NoFrame THEN NoExpected
                     ELSE ExpectedStatePacket(Append(required, power_pos), p)

\* The Fan branch.
FanExpected(cs, ss, cfp, sfp, pkt, required, pv) ==
    LET command_type_pos == Get(cfp, "commandType", 2)
        command_type == pkt[command_type_pos + 1]
        value_pos == Get(cfp, "value", 3)
        power_pos == Get(sfp, "power", 1)
        speed_pos == Get(sfp, "speed", 4)
        speed == pkt[value_pos + 1]
    IN  IF ~HasValue(cs, command_type_pos, "power") THEN NoExpected
        ELSE IF command_type = ValueOf(cs, command_type_pos, "power") THEN
            IF ~HasValue(cs, value_pos, "off") THEN NoExpected
            ELSE IF pkt[value_pos + 1] = ValueOf(cs, value_pos, "off") THEN
                IF ~HasValue(ss, power_pos, "off") THEN NoExpected
                ELSE LET p == SetPossible(pv, power_pos, {ss[power_pos].values["off"]})
                     IN  IF p = NoFrame THEN NoExpected
                         ELSE ExpectedStatePacket(Append(required, power_pos), p)
            ELSE
                IF ~HasValue(ss, power_pos, "on") THEN NoExpected
                ELSE LET p == SetPossible(pv, power_pos, {ss[power_pos].values["on"]})
                     IN  IF p = NoFrame THEN NoExpected
                         ELSE ExpectedStatePacket(Append(required, power_pos), p)
        ELSE IF ~HasValue(cs, command_type_pos, "setSpeed") THEN NoExpected
        ELSE IF command_type = ValueOf(cs, command_type_pos, "setSpeed") THEN
            IF ~HasValue(ss, speed_pos, DecStr(speed)) THEN NoExpected
            ELSE LET p == SetPossible(pv, speed_pos,
                                      {ss[speed_pos].values[DecStr(speed)]})
                 IN  IF p = NoFrame THEN NoExpected
                     ELSE ExpectedStatePacket(Append(required, speed_pos), p)
        ELSE ExpectedStatePacket(required, pv)

\* generate_expected_state_packet(command_str) under the schema ds, whose
\* devices are visited in the given order.
generate_expected_state_packet(ds, order, command_str) ==
    IF ds = NoSchema THEN NoExpected
    ELSE IF Len(command_str) # 8 THEN NoExpected
    \* bytes.fromhex on a pair of characters that is not hex, here a byte
    \* outside 0..255
    ELSE IF \E i \in DOMAIN command_str : command_str[i] \notin 0..255
    THEN PredictorRaised
    ELSE
    LET device_type == FindCommandDevice(ds, order, command_str[1])
    IN  IF device_type = "" THEN NoExpected
        ELSE IF device_type = "KeyError" THEN PredictorRaised
        ELSE IF "state" \notin DOMAIN ds[device_type] THEN PredictorRaised
        ELSE IF "fieldPositions" \notin DOMAIN ds[device_type].command
        THEN PredictorRaised
        ELSE IF "fieldPositions" \notin DOMAIN ds[device_type].state
        THEN PredictorRaised
        ELSE
        LET cs == ds[device_type].command.structure
            ss == ds[device_type].state.structure
            cfp == ds[device_type].command.fieldPositions
            sfp == ds[device_type].state.fieldPositions
            pv0 == [i \in 1..7 |-> IF i = 1 THEN {ds[device_type].state.header}
                                   ELSE {}]
            device_id_pos == Get(sfp, "deviceId", 2)
            required == <<0, device_id_pos>>
            pv == SetPossible(pv0, device_id_pos,
                      {byte_to_hex_str(command_str[Get(cfp, "deviceId", 1) + 1])})
        IN  IF pv = NoFrame THEN NoExpected
            ELSE IF device_type = "Thermo"
                 THEN ThermoExpected(cs, ss, cfp, sfp, command_str, required, pv)
            ELSE IF device_type \in {"Light", "LightBreaker"}
                 THEN LightExpected(cs, ss, cfp, sfp, command_str, required, pv)
            ELSE IF device_type = "Fan"
                 THEN FanExpected(cs, ss, cfp, sfp, command_str, required, pv)
            ELSE ExpectedStatePacket(required, pv)

\* ---------------------------------------------------------------- encoder
\* make_climate_command(device_id, target_temp, command_type): the frame, or
\* the failure marker on an unknown command type or a missing schema key.
make_climate_command(ds, device_id, target_temp, command_type) ==
    IF ds = NoSchema THEN NoFrame
    ELSE IF "Thermo" \notin DOMAIN ds \/ "command" \notin DOMAIN ds["Thermo"] THEN NoFrame
    ELSE IF "fieldPositions" \notin DOMAIN ds["Thermo"].command THEN NoFrame
    ELSE
    LET command == ds["Thermo"].command
        fp == command.fieldPositions
    IN  IF ~({"deviceId", "commandType", "value"} \subseteq DOMAIN fp) THEN NoFrame
        ELSE
        LET device_id_pos == fp["deviceId"]
            command_type_pos == fp["commandType"]
            value_pos == fp["value"]
            \* int(str(target_temp), 16): the decimal digits read as hex
            temp_byte == HexToInt(IF target_temp < 10
                                  THEN <<HexDigits[target_temp + 1]>>
                                  ELSE <<HexDigits[(target_temp \div 10) + 1],
                                         HexDigits[(target_temp % 10) + 1]>>)
            opcode(k) == ValueOf(command.structure, command_type_pos, k)
            build(op, val) ==
                checksum(Packet7((1 :> HexToInt(command.header))
                                 @@ ((device_id_pos + 1) :> device_id)
                                 @@ ((command_type_pos + 1) :> op)
                                 @@ ((value_pos + 1) :> val)))
        IN  IF device_id \notin 0..255 THEN NoFrame
            ELSE IF command_type = "commandOFF" THEN
                IF HasValue(command.structure, command_type_pos, "power")
                   /\ HasValue(command.structure, value_pos, "off")
                THEN build(opcode("power"), ValueOf(command.structure, value_pos, "off"))
                ELSE NoFrame
            ELSE IF command_type = "commandON" THEN
                IF HasValue(command.structure, command_type_pos, "power")
                   /\ HasValue(command.structure, value_pos, "on")
                THEN build(opcode("power"), ValueOf(command.structure, value_pos, "on"))
                ELSE NoFrame
            ELSE IF command_type = "commandCHANGE" THEN
                IF HasValue(command.structure, command_type_pos, "change")
                   /\ target_temp \in 0..99 /\ temp_byte \in 0..255
                THEN build(opcode("change"), temp_byte)
                ELSE NoFrame
            ELSE NoFrame

\* config["climate_min_temp"] and config["climate_max_temp"].
climate_min_temp == 5
climate_max_temp == 40

\* The numerals a setTemp request may carry, with int(float(value)), which
\* cuts the fraction off; any other value raises ValueError.
Numerals == ("5" :> 5) @@ ("24" :> 24) @@ ("40" :> 40) @@ ("45" :> 45)
            @@ ("4.9" :> 4) @@ ("40.9" :> 40)

\* float(value) of the same numerals, in tenths of a degree.
Tenths == ("5" :> 50) @@ ("24" :> 240) @@ ("40" :> 400) @@ ("45" :> 450)
          @@ ("4.9" :> 49) @@ ("40.9" :> 409)

\* The failure marker of process_ha_command: nothing is appended.
NoItem == [sendcmd |-> NoFrame, count |-> 0, expected_state |-> NoExpected,
           received_count |-> 0]

\* The packet of process_ha_command before the checksum: packet_hex is the
\* frame returned by make_climate_command (NoFrame when it returned None or
\* was not called), packet the local bytearray; error is TRUE when the
\* handler returned early or raised.
EncodeRequest(ds, topics, value) ==
    LET device == topics.device
        device_id == topics.device_id
        state == topics.state
        failed == [error |-> TRUE, packet_hex |-> NoFrame, packet |-> <<>>]
    IN  IF ds = NoSchema THEN failed
        ELSE IF device_id < 0 THEN failed
        ELSE IF device \notin DOMAIN ds THEN failed
        ELSE IF "command" \notin DOMAIN ds[device] THEN failed
        ELSE IF "fieldPositions" \notin DOMAIN ds[device].command THEN failed
        ELSE
        LET command == ds[device].command
            fp == command.fieldPositions
            header == HexToInt(command.header)
        IN  IF "deviceId" \notin DOMAIN fp \/ device_id > 255 THEN failed
            ELSE
            LET base == (1 :> header) @@ ((fp["deviceId"] + 1) :> device_id)
            IN  IF device = "Light" THEN
                    LET key == IF value = "ON" THEN "on" ELSE "off"
                    IN  IF "power" \in DOMAIN fp
                           /\ HasValue(command.structure, fp["power"], key)
                        THEN [error |-> FALSE, packet_hex |-> NoFrame,
                              packet |-> Packet7(((fp["power"] + 1) :>
                                  ValueOf(command.structure, fp["power"], key))
                                  @@ base)]
                        ELSE failed
                ELSE IF device = "Thermo" THEN
                    IF state = "power" THEN
                        [error |-> FALSE,
                         packet_hex |-> make_climate_command(ds, device_id, 0,
                             IF value = "heat" THEN "commandON" ELSE "commandOFF"),
                         packet |-> Packet7(base)]
                    ELSE IF state = "setTemp" THEN
                        IF value \notin DOMAIN Numerals THEN failed
                        ELSE IF ~(climate_min_temp <= Numerals[value]
                                  /\ Numerals[value] <= climate_max_temp) THEN failed
                        ELSE [error |-> FALSE,
                              packet_hex |-> make_climate_command(ds, device_id,
                                                 Numerals[value], "commandCHANGE"),
                              packet |-> Packet7(base)]
                    ELSE [error |-> FALSE, packet_hex |-> NoFrame,
                          packet |-> Packet7(base)]
                \* command[str(fieldPositions["commandType"])]: the command
                \* packet has no such key, a KeyError
                ELSE IF device = "Fan" THEN failed
                ELSE [error |-> FALSE, packet_hex |-> NoFrame, packet |-> Packet7(base)]

\* The frame process_ha_command goes on with: the local packet with its
\* checksum when packet_hex is None.
FinalPacket(enc) ==
    IF enc.packet_hex = NoFrame THEN checksum(enc.packet) ELSE enc.packet_hex

\* A handler that appends the Command whatever the predictor returned.
EnqueueWithoutExpected(ds, order, topics, value) ==
    LET enc == EncodeRequest(ds, topics, value)
    IN  IF enc.error \/ FinalPacket(enc) = NoFrame THEN NoItem
        ELSE [sendcmd |-> FinalPacket(enc), count |-> 0,
              expected_state |-> generate_expected_state_packet(
                                     ds, order, FinalPacket(enc)),
              received_count |-> 0]

\* process_ha_command(topics, value): the QueueItem appended to QUEUE, or
\* NoItem when nothing is appended.
process_ha_command(ds, order, topics, value) ==
    LET enc == EncodeRequest(ds, topics, value)
    IN  IF enc.error THEN NoItem
        ELSE LET packet_hex == FinalPacket(enc)
                 expected_state == generate_expected_state_packet(ds, order, packet_hex)
             IN  IF packet_hex = NoFrame \/ ~expected_state.ok THEN NoItem
                 ELSE [sendcmd |-> packet_hex, count |-> 0,
                       expected_state |-> expected_state, received_count |-> 0]

\* ------------------------------------------------------------ retry queue
\* A comparison that one required position is enough to satisfy.
MatchesSome(expected_state, received_packet) ==
    \E i \in 1..Len(expected_state.required_bytes) :
        LET pos == expected_state.required_bytes[i]
        IN  /\ Len(received_packet) > pos
            /\ pos + 1 \in DOMAIN expected_state.possible_values
            /\ expected_state.possible_values[pos + 1] # {} =>
                   byte_to_hex_str(received_packet[pos + 1])
                       \in expected_state.possible_values[pos + 1]

\* The comparison of one received packet with an expected state: every
\* required position is inside the packet and carries an acceptable value.
Matches(expected_state, received_packet) ==
    \A i \in 1..Len(expected_state.required_bytes) :
        LET pos == expected_state.required_bytes[i]
        IN  /\ Len(received_packet) > pos
            /\ pos + 1 \in DOMAIN expected_state.possible_values
            /\ expected_state.possible_values[pos + 1] # {} =>
                   byte_to_hex_str(received_packet[pos + 1])
                       \in expected_state.possible_values[pos + 1]

\* A scan that leaves out every frame that was in recv_data before the
\* publication, that is, all of them.
ScanNone(item, recv) == item

\* A scan during which one matching member is taken out of recv_data.
ScanTorn(item, recv) ==
    LET matching == {f \in recv : Matches(item.expected_state, f)}
    IN  [item EXCEPT !.received_count =
            @ + IF matching = {} THEN 0 ELSE Cardinality(matching) - 1]

\* The scan of recv_data: received_count grows by one per matching member.
Scan(item, recv) ==
    [item EXCEPT !.received_count =
        @ + Cardinality({f \in recv : Matches(item.expected_state, f)})]

\* The retried command put behind the waiting ones.
InsertBack(item, rest) == rest \o <<item>>

\* The retried command put back with its confirm count at 0 again.
InsertFrontFresh(item, rest) == <<[item EXCEPT !.received_count = 0]>> \o rest

\* QUEUE.insert(0, send_data)
InsertFront(item, rest) == <<item>> \o rest

\* AfterScan without the test of the confirmation threshold.
AfterScanNoConfirm(item, rest) ==
    IF item.count < max_send_count
    THEN [QUEUE |-> InsertFront(item, rest), kind |-> "requeued", slept |-> TRUE]
    ELSE [QUEUE |-> rest, kind |-> "abandoned", slept |-> TRUE]

\* A decision that takes the publication itself for the confirmation.
AfterScanAssumesReply(item, rest) ==
    [QUEUE |-> rest, kind |-> "confirmed", slept |-> FALSE]

\* A decision that puts the command back once more at the ceiling, to wait
\* for the reply to its last transmission.
AfterScanRetryAtCeiling(item, rest) ==
    IF item.received_count >= min_receive_count
    THEN [QUEUE |-> rest, kind |-> "confirmed", slept |-> FALSE]
    ELSE IF item.count <= max_send_count
    THEN [QUEUE |-> InsertFront(item, rest), kind |-> "requeued", slept |-> TRUE]
    ELSE [QUEUE |-> rest, kind |-> "abandoned", slept |-> TRUE]

\* The decision taken after the scan.
AfterScan(item, rest) ==
    IF item.received_count >= min_receive_count
    THEN [QUEUE |-> rest, kind |-> "confirmed", slept |-> FALSE]
    ELSE IF item.count < max_send_count
    THEN [QUEUE |-> InsertFront(item, rest), kind |-> "requeued", slept |-> TRUE]
    ELSE [QUEUE |-> rest, kind |-> "abandoned", slept |-> TRUE]

\* The branch taken without a usable expected state.
AfterSend(item, rest) ==
    IF item.count < max_send_count
    THEN [QUEUE |-> InsertFront(item, rest), kind |-> "requeued", slept |-> TRUE]
    ELSE [QUEUE |-> rest, kind |-> "dropped", slept |-> TRUE]

\* What the except clause of the publish step leaves in QUEUE.
AfterPublishError(item, rest) == rest

\* process_queue(): the new QUEUE, what became of the head (kind), the head
\* as it was left (item), whether the frame went out (published) and whether
\* the final sleep was reached (slept).  publish is the outcome of the
\* publish step: "ok", "caught" (ValueError or TypeError) or "raised" (any
\* other exception, which leaves process_queue).
process_queue(queue, recv, publish) ==
    IF queue = <<>>
    THEN [QUEUE |-> queue, kind |-> "empty", slept |-> FALSE,
          published |-> FALSE, item |-> NoItem]
    ELSE
    LET send_data == Head(queue)
        rest == Tail(queue)
    IN  IF publish = "caught"
        THEN [QUEUE |-> AfterPublishError(send_data, rest), kind |-> "caught",
              slept |-> FALSE, published |-> FALSE, item |-> send_data]
        ELSE IF publish = "raised"
        THEN [QUEUE |-> rest, kind |-> "raised", slept |-> FALSE,
              published |-> FALSE, item |-> send_data]
        ELSE
        LET sent == [send_data EXCEPT !.count = @ + 1]
        IN  IF sent.expected_state.ok
            THEN LET scanned == Scan(sent, recv)
                 IN  AfterScan(scanned, rest)
                         @@ [published |-> TRUE, item |-> scanned]
            ELSE AfterSend(sent, rest) @@ [published |-> TRUE, item |-> sent]

\* ------------------------------------------------------------ inbound path
\* The cap of each RecentFrames set.
RecentCap == 100

\* The set left as it is, whatever its size.
Uncapped(s) == {s}

\* set(list(s)[-100:]) after an add: the set held at most 100 members before
\* the add, so one member goes, and which one is up to the iteration order of
\* the set.
Capped(s) ==
    IF Cardinality(s) > RecentCap THEN {s \ {x} : x \in s} ELSE {s}

\* The two decimal-looking hex digits of a temperature byte, as
\* int(format(byte, '02x')) reads them; ValueError on a digit above 9.
TempRaises(b) == (b \div 16) > 9 \/ (b % 16) > 9

\* The temperature byte taken as the temperature.
DecodeTempPlain(b) == IF TempRaises(b) THEN -1 ELSE b

\* int(format(byte, '02x')): the hex digits of the byte read as decimal; -1
\* stands for the ValueError.
DecodeTemp(b) == IF TempRaises(b) THEN -1 ELSE (b \div 16) * 10 + (b % 16)

\* The first device in iteration order whose state header is byte 0.
RECURSIVE FindStateDevice(_, _, _)
FindStateDevice(ds, order, b0) ==
    IF order = <<>> THEN ""
    ELSE IF Head(order) \notin DOMAIN ds THEN FindStateDevice(ds, Tail(order), b0)
    ELSE IF "state" \notin DOMAIN ds[Head(order)] THEN "KeyError"
    ELSE IF "fieldPositions" \notin DOMAIN ds[Head(order)].state THEN "KeyError"
    ELSE IF b0 = HexToInt(ds[Head(order)].state.header) THEN Head(order)
    ELSE FindStateDevice(ds, Tail(order), b0)

\* Decoding of one checksum-valid frame raises (and so ends the handler).
DecodeRaises(ds, order, data) ==
    LET device_name == FindStateDevice(ds, order, data[1])
    IN  IF device_name = "" THEN FALSE
        ELSE IF device_name = "KeyError" THEN TRUE
        ELSE LET fp == ds[device_name].state.fieldPositions
             IN  IF "deviceId" \notin DOMAIN fp THEN TRUE
                 ELSE IF device_name = "Thermo"
                 THEN \/ TempRaises(data[Get(fp, "currentTemp", 3) + 1])
                      \/ TempRaises(data[Get(fp, "targetTemp", 4) + 1])
                      \/ "power" \notin DOMAIN fp
                 ELSE IF device_name \in {"Light", "LightBreaker", "Outlet", "Fan", "EV"}
                 THEN "power" \notin DOMAIN fp
                 ELSE FALSE

\* update_outlet: 'Outlet' + str(idx + 1); every other update_* function
\* names the device by idx itself.
EventIndex(device_name, device_id) ==
    IF device_name = "Outlet" THEN device_id + 1 ELSE device_id

\* No update_* call.
NoEvent == [device |-> "", idx |-> -1, frame |-> NoFrame]

\* The update_* call process_elfin_data makes for one frame, as the device and
\* the index of the state topics it publishes on.  The elevator publishes
\* only when its power reads ON; a device type without a branch publishes
\* nothing.
DecodeEvent(ds, order, data) ==
    LET device_name == FindStateDevice(ds, order, data[1])
    IN  IF data # checksum(data) THEN NoEvent
        ELSE IF device_name \in {"", "KeyError"} THEN NoEvent
        ELSE IF DecodeRaises(ds, order, data) THEN NoEvent
        ELSE IF device_name \notin {"Thermo", "Light", "LightBreaker", "Outlet",
                                    "Fan", "EV"}
        THEN NoEvent
        ELSE LET state == ds[device_name].state
                 fp == state.fieldPositions
                 power_pos == Get(fp, "power", 1)
                 device_id == data[fp["deviceId"] + 1]
             IN  IF device_name = "EV"
                    /\ ~(/\ HasValue(state.structure, power_pos, "on")
                         /\ byte_to_hex_str(data[power_pos + 1])
                                = state.structure[power_pos].values["on"])
                 THEN NoEvent
                 ELSE [device |-> device_name,
                       idx |-> EventIndex(device_name, device_id),
                       frame |-> data]

\* The update_* calls of process_elfin_data(raw_data), in order: none for a
\* frame that fails the checksum test, and none after a frame whose decoding
\* raised.
RECURSIVE Events(_, _, _)
Events(ds, order, raw_data) ==
    IF ds = NoSchema \/ raw_data = <<>> THEN <<>>
    ELSE LET data == Head(raw_data)
             e == DecodeEvent(ds, order, data)
         IN  IF data = checksum(data) /\ DecodeRaises(ds, order, data) THEN <<>>
             ELSE (IF e = NoEvent THEN <<>> ELSE <<e>>)
                      \o Events(ds, order, Tail(raw_data))

\* A handler that adds every frame of the message, whatever its last byte.
AddAll(ds, order, raw_data, recv) ==
    IF ds = NoSchema THEN {recv}
    ELSE {recv \cup {raw_data[i] : i \in DOMAIN raw_data}}

\* process_elfin_data(raw_data): the values recv_data may have afterwards.
\* raw_data is the sequence of its 16-character pieces.
RECURSIVE process_elfin_data(_, _, _, _)
process_elfin_data(ds, order, raw_data, recv) ==
    IF ds = NoSchema \/ raw_data = <<>> THEN {recv}
    ELSE LET data == Head(raw_data)
         IN  IF data = checksum(data)
             THEN IF DecodeRaises(ds, order, data)
                  THEN Capped(recv \cup {data})
                  ELSE UNION {process_elfin_data(ds, order, Tail(raw_data), r) :
                                 r \in Capped(recv \cup {data})}
             ELSE process_elfin_data(ds, order, Tail(raw_data), recv)

\* ------------------------------------------------------------------- time
\* The quiet interval of the queue, in ms.
QuietMs == 130
\* asyncio.sleep(0.05) at the end of process_queue, in ms.
QueueSleepMs == 50
\* config["queue_interval_in_second"], in ms.
queue_interval == 50
\* config["elfin_reboot_interval"], in ms (elfin_reboot_interval * 1_000).
elfin_reboot_interval == 200
\* asyncio.sleep(10) of reboot_elfin_device, in ms.
RebootSleepMs == 10000
\* asyncio.sleep(0.1) of wait_for_mqtt after the tick loop returned, in ms.
RestartSleepMs == 100
\* asyncio.sleep(5) of wait_for_mqtt before it waits for the connection, in ms.
ReconnectSleepMs == 5000

Max2(a, b) == IF a > b THEN a ELSE b

\* Elapsed times are kept up to the first value above every threshold they
\* are compared with; all larger values behave alike.
SatMs == Max2(elfin_reboot_interval, QuietMs) + Max2(queue_interval, QueueSleepMs)

Elapse(age, d) == IF age + d > SatMs THEN SatMs ELSE age + d

\* A clock of the observer (the time since the last inbound message, the time
\* since the last reset of the watchdog), for the specifications that start it
\* at 0; started at -1 it is not kept.  After d ms, and after its event.
Silent(s, d) == IF s = -1 THEN -1 ELSE Elapse(s, d)
Heard(s) == IF s = -1 THEN -1 ELSE 0

\* -------------------------------------------------------------- the inputs
\* A state frame of thermostat device 1.
ThermoState(power, temp) == checksum(<<130, power, 1, temp, temp, 0, 0>>)
FrameIdle == ThermoState(129, 36)
FrameHeating == ThermoState(131, 36)
FrameOff == ThermoState(128, 36)
\* A frame whose last byte is not its checksum.
FrameBad == [FrameIdle EXCEPT ![8] = (@ + 1) % 256]

\* The inbound messages of a run.
Messages == {<<FrameIdle>>, <<FrameBad, FrameOff>>}

\* The echoes of the outbound channel.
Echoes == {checksum(<<4, 1, 4, 129, 0, 0, 0>>)}

Topics(d, i, s) == [device |-> d, device_id |-> i, state |-> s]

\* The control-plane requests of a run.
Requests ==
    {[topics |-> Topics("Thermo", 1, "power"), value |-> "heat"],
     [topics |-> Topics("Thermo", 1, "setTemp"), value |-> "45"],
     [topics |-> Topics("Thermo", 1, "mode"), value |-> "heat"],
     [topics |-> Topics("Light", 1, "power"), value |-> "ON"],
     [topics |-> Topics("Gas", 1, "power"), value |-> "ON"]}

\* ------------------------------------------------------------------ state
VARIABLES
    QUEUE,              \* self.QUEUE; each item also carries its serial uid
    recv_data,          \* COLLECTDATA['recv_data']
    send_data,          \* COLLECTDATA['send_data']
    last_recv_age,      \* time.time_ns() - COLLECTDATA['last_recv_time'], ms
    pc,                 \* where the tick loop of wait_for_mqtt stands
    signal_interval,    \* the local of the tick that awaits the reboot
    mqtt_connected,     \* the asyncio.Event of run()
    elfin_auto_reboot,  \* config["elfin_auto_reboot"]
    hist,               \* per uid: the request, its publications, and what
                        \*   the last tick that took it left: the step taken
                        \*   and the two counters
    seen,               \* every frame that has been a member of recv_data
    since_reset,        \* ms since the watchdog last reset the timestamp,
                        \*   for the specifications that start it at 0
    built,              \* how far load_devices_and_packets_structures has
                        \*   come: -1 while DEVICE_STRUCTURE is None, else the
                        \*   number of packets that have their fieldPositions
    silence             \* ms since the last message on ew11/recv, for the
                        \*   specifications that start it at 0; -1 is kept

vars == <<QUEUE, recv_data, send_data, last_recv_age, pc, signal_interval,
          mqtt_connected, elfin_auto_reboot, hist, seen, since_reset, built,
          silence>>

\* The complete schema whatever the loader has done.
SchemaAlwaysBuilt == Structures[NPackets]

\* self.DEVICE_STRUCTURE
DEVICE_STRUCTURE == IF built = -1 THEN NoSchema ELSE Structures[built]

Init ==
    /\ QUEUE = <<>>
    /\ recv_data = {}
    /\ send_data = {}
    /\ last_recv_age = 0
    /\ pc = "tick"
    /\ signal_interval = 0
    /\ mqtt_connected = TRUE
    /\ elfin_auto_reboot = TRUE
    /\ hist = <<>>
    /\ seen = {}
    /\ since_reset = -1
    /\ built = NPackets
    /\ silence = -1

\* What process_ha_command makes of each request under the complete schema:
\* it reads the request and the schema only.
Encoded ==
    [req \in Requests |->
        process_ha_command(CommaxStructure, DeviceOrder, req.topics, req.value)]

\* ---------------------------------------------------- on_mqtt_message
\* A message of the MQTT thread and the coroutine it hands to the event loop
\* are one step: the loop runs the coroutine at its next iteration, and the
\* tick loop is suspended between any two of its steps.

\* ew11/recv: the timestamp is set, whatever the payload, and
\* process_elfin_data runs on the payload.  While DEVICE_STRUCTURE is None the
\* decorated process_elfin_data returns None instead of a coroutine,
\* run_coroutine_threadsafe raises TypeError, and the handler of
\* on_mqtt_message logs it: the timestamp is not reached.
OnMqttRecv(raw) ==
    /\ mqtt_connected
    /\ IF DEVICE_STRUCTURE = NoSchema
       THEN UNCHANGED <<last_recv_age, recv_data, seen>>
       ELSE /\ last_recv_age' = 0
            /\ recv_data' \in process_elfin_data(DEVICE_STRUCTURE, DeviceOrder,
                                                 raw, recv_data)
            /\ seen' = seen \cup recv_data'
    /\ silence' = Heard(silence)
    /\ UNCHANGED <<QUEUE, send_data, pc, signal_interval, mqtt_connected,
                   elfin_auto_reboot, hist, since_reset, built>>

\* ew11/send: the echo joins send_data, which is then capped.
OnMqttSend(raw) ==
    /\ mqtt_connected
    /\ send_data' \in Capped(send_data \cup {raw})
    /\ UNCHANGED <<QUEUE, recv_data, last_recv_age, pc, signal_interval,
                   mqtt_connected, elfin_auto_reboot, hist, seen, since_reset,
                   built, silence>>

\* <HA_TOPIC>/<device>/<state>/command: process_ha_command runs on the request.
OnMqttCommand(req) ==
    /\ mqtt_connected
    /\ Len(hist) < MaxCommands
    /\ LET item == IF built = NPackets /\ req \in Requests THEN Encoded[req]
                   ELSE process_ha_command(DEVICE_STRUCTURE, DeviceOrder,
                                           req.topics, req.value)
       IN  IF item = NoItem
           THEN UNCHANGED <<QUEUE, hist>>
           ELSE /\ QUEUE' = Append(QUEUE, item @@ [uid |-> Len(hist) + 1])
                /\ hist' = Append(hist, [request |-> req, pubs |-> 0,
                                         last |-> "queued", count |-> 0,
                                         received_count |-> 0])
    /\ UNCHANGED <<recv_data, send_data, last_recv_age, pc, signal_interval,
                   mqtt_connected, elfin_auto_reboot, seen, since_reset, built,
                   silence>>

\* The timestamp left as it is by the watchdog.
WatchdogKeeps(age) == age

\* --------------------------------------------------------- the tick loop
\* self.COLLECTDATA['last_recv_time'] = time.time_ns() of the watchdog.
WatchdogReset(age) == 0

\* A loop that ends with the exception of process_queue.
AfterQueueHalts(r) ==
    IF r.kind = "raised" THEN "halted"
    ELSE IF r.slept THEN "queue_sleep"
    ELSE "tick_sleep"

\* Where the loop goes after process_queue.
AfterQueue(r) ==
    IF r.kind = "raised" THEN "returned"
    ELSE IF r.slept THEN "queue_sleep"
    ELSE "tick_sleep"

\* A tick that takes a second Command as soon as it has published the first.
QueuePartTwice(si, publish) ==
    IF si > QuietMs
    THEN LET r1 == process_queue(QUEUE, recv_data, publish)
             r == IF r1.published THEN process_queue(r1.QUEUE, recv_data, publish)
                  ELSE r1
             h1 == IF r1.kind = "empty" THEN hist
                   ELSE [hist EXCEPT ![r1.item.uid] =
                            [@ EXCEPT !.pubs = IF r1.published THEN @ + 1 ELSE @,
                                      !.last = r1.kind,
                                      !.count = r1.item.count,
                                      !.received_count = r1.item.received_count]]
         IN  /\ QUEUE' = r.QUEUE
             /\ hist' = IF r.kind = "empty" \/ ~r1.published THEN h1
                        ELSE [h1 EXCEPT ![r.item.uid] =
                                 [@ EXCEPT !.pubs = IF r.published THEN @ + 1 ELSE @,
                                           !.last = r.kind,
                                           !.count = r.item.count,
                                           !.received_count = r.item.received_count]]
             /\ pc' = AfterQueue(r)
    ELSE /\ UNCHANGED <<QUEUE, hist>>
         /\ pc' = "tick_sleep"

\* A tick that calls process_queue whatever the interval it measured.
QueuePartAlways(si, publish) ==
    LET r == process_queue(QUEUE, recv_data, publish)
    IN  /\ QUEUE' = r.QUEUE
        /\ hist' = IF r.kind = "empty" THEN hist
                   ELSE [hist EXCEPT ![r.item.uid] =
                            [@ EXCEPT !.pubs = IF r.published THEN @ + 1 ELSE @,
                                      !.last = r.kind,
                                      !.count = r.item.count,
                                      !.received_count = r.item.received_count]]
        /\ pc' = AfterQueue(r)

\* A tick that leaves the queue alone when the interval it measured is above
\* the watchdog threshold.
QueuePartAfterReset(si, publish) ==
    IF si > QuietMs /\ si <= elfin_reboot_interval
    THEN LET r == process_queue(QUEUE, recv_data, publish)
         IN  /\ QUEUE' = r.QUEUE
             /\ hist' = IF r.kind = "empty" THEN hist
                        ELSE [hist EXCEPT ![r.item.uid] =
                                 [@ EXCEPT !.pubs = IF r.published THEN @ + 1 ELSE @,
                                           !.last = r.kind,
                                           !.count = r.item.count,
                                           !.received_count = r.item.received_count]]
             /\ pc' = AfterQueue(r)
    ELSE /\ UNCHANGED <<QUEUE, hist>>
         /\ pc' = "tick_sleep"

\* `if signal_interval > 130: await self.process_queue()`, up to the next
\* point where the loop is suspended.
QueuePart(si, publish) ==
    IF si > QuietMs
    THEN LET r == process_queue(QUEUE, recv_data, publish)
         IN  /\ QUEUE' = r.QUEUE
             /\ hist' = IF r.kind = "empty" THEN hist
                        ELSE [hist EXCEPT ![r.item.uid] =
                                 [@ EXCEPT !.pubs = IF r.published THEN @ + 1 ELSE @,
                                           !.last = r.kind,
                                           !.count = r.item.count,
                                           !.received_count = r.item.received_count]]
             /\ pc' = AfterQueue(r)
    ELSE /\ UNCHANGED <<QUEUE, hist>>
         /\ pc' = "tick_sleep"

\* One pass of the while loop of process_queue_and_monitor up to its first
\* suspension: the watchdog test, then either the call of the recovery
\* action or the queue.
Tick(publish) ==
    /\ pc = "tick"
    /\ IF last_recv_age > elfin_reboot_interval
       THEN /\ last_recv_age' = WatchdogReset(last_recv_age)
            /\ since_reset' = Heard(since_reset)
            /\ IF elfin_auto_reboot
               THEN /\ pc' = "reboot"
                    /\ signal_interval' = last_recv_age
                    /\ UNCHANGED <<QUEUE, hist>>
               ELSE /\ QueuePart(last_recv_age, publish)
                    /\ signal_interval' = 0
       ELSE /\ QueuePart(last_recv_age, publish)
            /\ signal_interval' = 0
            /\ UNCHANGED <<last_recv_age, since_reset>>
    /\ UNCHANGED <<recv_data, send_data, mqtt_connected, elfin_auto_reboot, seen,
                   built, silence>>

\* reboot_elfin_device() comes back, after its sleep of 10 s when the telnet
\* session went through (ok) and at once when it raised; the tick goes on with
\* the queue and the interval computed before the call.
RebootDone(ok, publish) ==
    /\ pc = "reboot"
    /\ LET d == IF ok THEN RebootSleepMs ELSE 0
       IN  /\ last_recv_age' = Elapse(last_recv_age, d)
           /\ since_reset' = Silent(since_reset, d)
           /\ silence' = Silent(silence, d)
    /\ QueuePart(signal_interval, publish)
    /\ signal_interval' = 0
    /\ UNCHANGED <<recv_data, send_data, mqtt_connected, elfin_auto_reboot, seen,
                   built>>

\* The end of a sleep: d ms have passed and the loop stands at `next`.
Wake(at, d, next) ==
    /\ pc = at
    /\ pc' = next
    /\ last_recv_age' = Elapse(last_recv_age, d)
    /\ since_reset' = Silent(since_reset, d)
    /\ silence' = Silent(silence, d)
    /\ UNCHANGED <<QUEUE, recv_data, send_data, signal_interval, mqtt_connected,
                   elfin_auto_reboot, hist, seen, built>>

\* await asyncio.sleep(0.05) at the end of process_queue
WakeQueueSleep == Wake("queue_sleep", QueueSleepMs, "tick_sleep")

\* await asyncio.sleep(queue_interval) at the end of the pass
WakeTickSleep == Wake("tick_sleep", queue_interval, "tick")

\* wait_for_mqtt after process_queue_and_monitor returned: sleep 0.1 s, then
\* the next call while the connection event is set, else the wait for it.
Restart ==
    Wake("returned", RestartSleepMs, IF mqtt_connected THEN "tick" ELSE "wait_mqtt")

\* `await asyncio.sleep(5)` of a disconnected bridge, then
\* `await mqtt_connected.wait()`: the waiter goes on once the event was set.
WaitMqtt ==
    /\ mqtt_connected
    /\ Wake("wait_mqtt", ReconnectSleepMs, "tick")

\* on_connect_callback / on_disconnect_callback
OnConnect ==
    /\ ~mqtt_connected
    /\ mqtt_connected' = TRUE
    /\ UNCHANGED <<QUEUE, recv_data, send_data, last_recv_age, pc,
                   signal_interval, elfin_auto_reboot, hist, seen, since_reset,
                   built, silence>>

OnDisconnect ==
    /\ mqtt_connected
    /\ mqtt_connected' = FALSE
    /\ UNCHANGED <<QUEUE, recv_data, send_data, last_recv_age, pc,
                   signal_interval, elfin_auto_reboot, hist, seen, since_reset,
                   built, silence>>

\* What the publish step of process_queue does: it passes, it raises what
\* process_queue catches (ValueError, TypeError), or it raises something else.
\* With an empty queue there is no publish step.
PublishOutcomes == IF QUEUE = <<>> THEN {"ok"} ELSE {"ok", "caught", "raised"}

Next ==
    \/ \E raw \in Messages : OnMqttRecv(raw)
    \/ \E req \in Requests : OnMqttCommand(req)
    \/ \E publish \in PublishOutcomes : Tick(publish)
    \/ \E ok \in BOOLEAN, publish \in PublishOutcomes : RebootDone(ok, publish)
    \/ WakeQueueSleep
    \/ WakeTickSleep
    \/ Restart

\* The bridge with a steady broker connection.
Spec == Init /\ [][Next]_vars

\* The bridge with a broker connection that comes and goes, one request and
\* one kind of inbound message.
LiveRequest == [topics |-> Topics("Thermo", 1, "power"), value |-> "heat"]

NextLive ==
    \/ OnMqttRecv(<<FrameIdle>>)
    \/ OnMqttCommand(LiveRequest)
    \/ \E publish \in PublishOutcomes : Tick(publish)
    \/ \E ok \in BOOLEAN, publish \in PublishOutcomes : RebootDone(ok, publish)
    \/ WakeQueueSleep
    \/ WakeTickSleep
    \/ Restart
    \/ WaitMqtt
    \/ OnConnect
    \/ OnDisconnect

\* The event loop runs a coroutine that is ready: a tick, a return of the
\* recovery action and the end of a sleep are not put off forever.  The broker
\* client reconnects, and a set of the connection event wakes its waiter even
\* when the event is cleared again afterwards.
Fairness ==
    /\ WF_vars(\E publish \in PublishOutcomes : Tick(publish))
    /\ WF_vars(\E ok \in BOOLEAN, publish \in PublishOutcomes : RebootDone(ok, publish))
    /\ WF_vars(WakeQueueSleep)
    /\ WF_vars(WakeTickSleep)
    /\ WF_vars(Restart)
    /\ SF_vars(WaitMqtt)
    /\ WF_vars(OnConnect)

SpecLive == Init /\ [][NextLive]_vars /\ Fairness

\* The two sets of recent frames on their own: frames that differ in one
\* byte, each message carrying the first frame the set does not hold, or one
\* it holds.  Neither set depends on the other: the echoes come first, and the
\* inbound frames once send_data has overflowed and lost its first frame, so
\* that the states of one set are not paired with all the states of the other.
CapFrame(k) == checksum(<<130, 129, 1, k, k, 0, 0>>)

CapFrames == {CapFrame(k) : k \in 0..RecentCap}

FirstAbsent(s) ==
    IF CapFrames \subseteq s THEN {}
    ELSE LET k == CHOOSE k \in 0..RecentCap :
                     /\ CapFrame(k) \notin s
                     /\ \A j \in 0..(k - 1) : CapFrame(j) \in s
         IN  {CapFrame(k)}

CapInputs(s) == FirstAbsent(s) \cup (s \cap {CapFrame(0)})

EchoesOverflowed ==
    /\ Cardinality(send_data) = RecentCap
    /\ CapFrame(0) \notin send_data

NextCap ==
    \/ /\ EchoesOverflowed
       /\ \E f \in CapInputs(recv_data) : OnMqttRecv(<<f>>)
    \/ /\ recv_data = {}
       /\ \E f \in CapInputs(send_data) : OnMqttSend(f)

SpecCap == Init /\ [][NextCap]_vars

\* ------------------------------------------- the watch specification
\* The tick loop with its watchdog under inbound messages of every kind, with
\* the time since the last inbound message kept.

\* A thermostat state frame whose temperature bytes carry a hex digit above 9.
FrameHexTemp == ThermoState(129, 26)

\* The inbound messages of the watch specification: one without a valid
\* frame, one whose first frame cannot be decoded, one that decodes.
WatchMessages == {<<FrameBad>>, <<FrameHexTemp, FrameIdle>>, <<FrameIdle>>}

InitWatch ==
    /\ QUEUE = <<>>
    /\ recv_data = {}
    /\ send_data = {}
    /\ last_recv_age = 0
    /\ pc = "tick"
    /\ signal_interval = 0
    /\ mqtt_connected = TRUE
    /\ elfin_auto_reboot = TRUE
    /\ hist = <<>>
    /\ seen = {}
    /\ since_reset = 0
    /\ built = NPackets
    /\ silence = 0

NextWatch ==
    \/ \E raw \in WatchMessages : OnMqttRecv(raw)
    \/ OnMqttCommand(LiveRequest)
    \/ \E publish \in PublishOutcomes : Tick(publish)
    \/ \E ok \in BOOLEAN, publish \in PublishOutcomes : RebootDone(ok, publish)
    \/ WakeQueueSleep
    \/ WakeTickSleep
    \/ Restart

SpecWatch == InitWatch /\ [][NextWatch]_vars

\* ------------------------------------------ the manual specification
\* The watch specification with config["elfin_auto_reboot"] false: the
\* watchdog has no recovery action to call.

InitManual ==
    /\ QUEUE = <<>>
    /\ recv_data = {}
    /\ send_data = {}
    /\ last_recv_age = 0
    /\ pc = "tick"
    /\ signal_interval = 0
    /\ mqtt_connected = TRUE
    /\ elfin_auto_reboot = FALSE
    /\ hist = <<>>
    /\ seen = {}
    /\ since_reset = 0
    /\ built = NPackets
    /\ silence = 0

NextManual ==
    \/ \E raw \in WatchMessages : OnMqttRecv(raw)
    \/ OnMqttCommand(LiveRequest)
    \/ \E publish \in PublishOutcomes : Tick(publish)
    \/ WakeQueueSleep
    \/ WakeTickSleep
    \/ Restart

SpecManual == InitManual /\ [][NextManual]_vars

\* ----------------------------------- the fire-and-hope specification
\* process_queue on a queue whose head carries no expected state: the watch
\* specification started with such a Command, which has uid 1.

\* A QueueItem whose expected_state is None.
HopeItem == [sendcmd |-> checksum(<<4, 1, 4, 129, 0, 0, 0>>), count |-> 0,
             expected_state |-> NoExpected, received_count |-> 0]

\* It comes from no request.
NoRequest == [topics |-> Topics("", 0, ""), value |-> ""]

InitHope ==
    /\ QUEUE = <<HopeItem @@ [uid |-> 1]>>
    /\ recv_data = {}
    /\ send_data = {}
    /\ last_recv_age = 0
    /\ pc = "tick"
    /\ signal_interval = 0
    /\ mqtt_connected = TRUE
    /\ elfin_auto_reboot = TRUE
    /\ hist = <<[request |-> NoRequest, pubs |-> 0, last |-> "queued",
                 count |-> 0, received_count |-> 0]>>
    /\ seen = {}
    /\ since_reset = 0
    /\ built = NPackets
    /\ silence = 0

SpecHope == InitHope /\ [][NextWatch]_vars

\* ------------------------------------------ the stale-frame specification
\* The watch specification with a bus that falls silent before the first
\* request: every frame of recv_data was received before any Command was
\* enqueued.
NextStale ==
    \/ /\ hist = <<>>
       /\ \E raw \in WatchMessages : OnMqttRecv(raw)
    \/ OnMqttCommand(LiveRequest)
    \/ \E publish \in PublishOutcomes : Tick(publish)
    \/ \E ok \in BOOLEAN, publish \in PublishOutcomes : RebootDone(ok, publish)
    \/ WakeQueueSleep
    \/ WakeTickSleep
    \/ Restart

SpecStale == Init /\ [][NextStale]_vars

\* --------------------------------------- the encoding specification
\* process_ha_command on requests of every kind under the complete schema,
\* with every request kept in hist, the refused ones too.

\* <HA_TOPIC>/<device>/<state>/command, as OnMqttCommand, with the request
\* kept whatever becomes of it and with what the loader had built by then.
HaRequest(req) ==
    /\ mqtt_connected
    /\ Len(hist) < MaxRequests
    /\ LET item == process_ha_command(DEVICE_STRUCTURE, DeviceOrder,
                                      req.topics, req.value)
       IN  /\ QUEUE' = IF item = NoItem THEN QUEUE
                       ELSE Append(QUEUE, item @@ [uid |-> Len(hist) + 1])
           /\ hist' = Append(hist, [request |-> req, pubs |-> 0,
                                    last |-> IF item = NoItem THEN "refused"
                                             ELSE "queued",
                                    count |-> 0, received_count |-> 0,
                                    built |-> built])
    /\ UNCHANGED <<recv_data, send_data, last_recv_age, pc, signal_interval,
                   mqtt_connected, elfin_auto_reboot, seen, since_reset, built,
                   silence>>

\* The requests of the encoding specification.
EncodeRequests ==
    {[topics |-> Topics("Thermo", i, "power"), value |-> v] :
        i \in {1, 2}, v \in {"heat", "off"}}
    \cup {[topics |-> Topics("Thermo", 1, "setTemp"), value |-> v] :
            v \in DOMAIN Numerals \cup {"warm"}}
    \cup {[topics |-> Topics("Light", i, "power"), value |-> v] :
            i \in {1, 2}, v \in {"ON", "OFF"}}
    \cup {[topics |-> Topics("Fan", 1, "power"), value |-> "ON"]}

NextEncode == \E req \in EncodeRequests : HaRequest(req)

SpecEncode == Init /\ [][NextEncode]_vars

\* --------------------------------------- the function specification
\* The predictor, the decoder and the loader of the schema document, each
\* applied to inputs of every kind, with every application kept in hist.

\* A schema in which Light has no command packet.
SchemaNoCommand ==
    [d \in DOMAIN CommaxStructure |->
        IF d = "Light" THEN [state |-> CommaxStructure[d].state]
        ELSE CommaxStructure[d]]

OutletCommandStructure ==
    (1 :> Field("deviceId", NoValues)) @@
    (2 :> Field("power", ("on" :> <<"0", "1">>) @@ ("off" :> <<"0", "0">>)))

OutletStateStructure ==
    (1 :> Field("power", ("on" :> <<"0", "1">>) @@ ("off" :> <<"0", "0">>))) @@
    (2 :> Field("deviceId", NoValues)) @@
    (3 :> Field("empty", NoValues)) @@
    (4 :> Field("empty", NoValues)) @@
    (5 :> Field("watt", NoValues))

\* The schema of the run with the Outlet device after the others.
SchemaWithOutlet ==
    [d \in DOMAIN CommaxStructure \cup {"Outlet"} |->
        IF d = "Outlet"
        THEN [command |-> PacketSchema(<<"7", "A">>, OutletCommandStructure),
              state   |-> PacketSchema(<<"F", "9">>, OutletStateStructure)]
        ELSE CommaxStructure[d]]

OrderWithOutlet == DeviceOrder \o <<"Outlet">>

\* The schemas the functions are applied under.
Schemas ==
    [complete  |-> [ds |-> CommaxStructure, order |-> DeviceOrder],
     nocommand |-> [ds |-> SchemaNoCommand, order |-> DeviceOrder],
     outlet    |-> [ds |-> SchemaWithOutlet, order |-> OrderWithOutlet]]

\* A command frame from its first four bytes.
CommandFrame(b0, b1, b2, b3) == checksum(<<b0, b1, b2, b3, 0, 0, 0>>)

\* The frames the predictor is applied to: thermostat power on, power off,
\* temperature change and a command type that is neither; fan power on, off
\* and speed; light on and off; an outlet command; a header of no device; a
\* frame that is too short; a frame with a pair of characters that is not hex.
PredictFrames ==
    {CommandFrame(4, 1, 4, 129), CommandFrame(4, 2, 4, 0),
     CommandFrame(4, 1, 3, 36), CommandFrame(4, 1, 0, 0),
     CommandFrame(120, 1, 1, 4), CommandFrame(120, 1, 1, 0),
     CommandFrame(120, 1, 2, 2),
     CommandFrame(49, 1, 1, 0), CommandFrame(49, 2, 0, 0),
     CommandFrame(122, 1, 1, 0),
     CommandFrame(255, 1, 1, 0),
     <<4, 1, 4, 129>>,
     [CommandFrame(4, 1, 4, 129) EXCEPT ![4] = -1]}

\* A state frame from its header, power, device id and one more byte.
StateFrame(b0, b1, b2, b3) == checksum(<<b0, b1, b2, b3, 0, 0, 0>>)

\* The messages the decoder is applied to.
DecodeMessages ==
    {<<FrameIdle>>, <<FrameBad, FrameOff>>, <<FrameHexTemp, FrameIdle>>,
     <<StateFrame(176, 1, 2, 0)>>, <<StateFrame(246, 4, 1, 2)>>,
     <<StateFrame(249, 1, 1, 0)>>, <<StateFrame(249, 0, 2, 0)>>}

\* A packet structure that repeats the name power and has two empty fields.
RepeatedStructure ==
    (1 :> Field("deviceId", NoValues)) @@
    (2 :> Field("power", ("on" :> <<"0", "1">>) @@ ("off" :> <<"0", "0">>))) @@
    (3 :> Field("power", NoValues)) @@
    (4 :> Field("empty", NoValues)) @@
    (5 :> Field("speed", NoValues)) @@
    (6 :> Field("empty", NoValues))

\* A schema as yaml.safe_load returns its document.
Raw(ds) == [d \in DOMAIN ds |-> [t \in DOMAIN ds[d] |-> RawPacket(ds[d][t])]]

\* A document whose first packet, the Light command, has the repeated name.
DocumentWithRepeat ==
    [Raw(CommaxStructure) EXCEPT !.Light.command.structure = RepeatedStructure]

\* The documents the loader is applied to.
Documents ==
    {DocumentWithRepeat, Raw(CommaxStructure), Raw(SchemaNoCommand),
     Raw(SchemaWithOutlet)}

\* The loop of load_devices_and_packets_structures over the devices and the
\* packet types of a document: every command and state packet gets its
\* fieldPositions.
LoadSchema(doc) ==
    [d \in DOMAIN doc |->
        [t \in DOMAIN doc[d] |->
            IF \E j \in DOMAIN PacketTypes : PacketTypes[j] = t
            THEN [fieldPositions |-> FieldPositions(doc[d][t].structure)]
                 @@ doc[d][t]
            ELSE doc[d][t]]]

\* A set of recent frames that is full: RecentCap frames, CapFrame(0) the
\* first that was inserted and CapFrame(RecentCap - 1) the last.
FullPool == {CapFrame(k) : k \in 0..(RecentCap - 1)}

\* What each of the two sets may be after the insertion of the frame
\* CapFrame(RecentCap) into the full set: recv_data through
\* process_elfin_data, send_data through the ew11/send branch of
\* on_mqtt_message.
AfterInsertion ==
    [recv |-> process_elfin_data(SchemaWithOutlet, OrderWithOutlet,
                                 <<CapFrame(RecentCap)>>, FullPool),
     send |-> Capped(FullPool \cup {CapFrame(RecentCap)})]

\* generate_expected_state_packet(frame) under schema k.
PredictFrame(k, frame) ==
    /\ Len(hist) < MaxRequests
    /\ hist' = Append(hist,
           [op |-> "predict", schema |-> k, frame |-> frame,
            expected |-> generate_expected_state_packet(
                             Schemas[k].ds, Schemas[k].order, frame)])
    /\ UNCHANGED <<QUEUE, recv_data, send_data, last_recv_age, pc,
                   signal_interval, mqtt_connected, elfin_auto_reboot, seen,
                   since_reset, built, silence>>

\* process_elfin_data(raw) under the schema with the outlet, recv_data empty
\* before: the values recv_data may have afterwards and the update_* calls.
DecodeMessage(raw) ==
    /\ Len(hist) < MaxRequests
    /\ hist' = Append(hist,
           [op |-> "decode", raw |-> raw,
            recv |-> process_elfin_data(SchemaWithOutlet, OrderWithOutlet,
                                        raw, {}),
            events |-> Events(SchemaWithOutlet, OrderWithOutlet, raw)])
    /\ UNCHANGED <<QUEUE, recv_data, send_data, last_recv_age, pc,
                   signal_interval, mqtt_connected, elfin_auto_reboot, seen,
                   since_reset, built, silence>>

\* load_devices_and_packets_structures on a document.
LoadDocument(doc) ==
    /\ Len(hist) < MaxRequests
    /\ hist' = Append(hist,
           [op |-> "load", doc |-> doc, schema |-> LoadSchema(doc)])
    /\ UNCHANGED <<QUEUE, recv_data, send_data, last_recv_age, pc,
                   signal_interval, mqtt_connected, elfin_auto_reboot, seen,
                   since_reset, built, silence>>

\* The insertion of one more frame into a full set of recent frames: the
\* members that the cut to RecentCap may have taken out.
InsertFrame(set) ==
    /\ Len(hist) < MaxRequests
    /\ hist' = Append(hist,
           [op |-> "insert", set |-> set, frame |-> CapFrame(RecentCap),
            evicted |-> {(FullPool \cup {CapFrame(RecentCap)}) \ after :
                            after \in AfterInsertion[set]}])
    /\ UNCHANGED <<QUEUE, recv_data, send_data, last_recv_age, pc,
                   signal_interval, mqtt_connected, elfin_auto_reboot, seen,
                   since_reset, built, silence>>

NextApply ==
    \/ \E k \in DOMAIN Schemas, frame \in PredictFrames :
           PredictFrame(k, frame)
    \/ \E raw \in DecodeMessages : DecodeMessage(raw)
    \/ \E doc \in Documents : LoadDocument(doc)
    \/ \E set \in DOMAIN AfterInsertion : InsertFrame(set)

SpecApply == Init /\ [][NextApply]_vars

\* ----------------------------------------- the schema specification
\* The handlers while load_devices_and_packets_structures runs again on the
\* thread of the web server, and while DEVICE_STRUCTURE is None.

\* `self.DEVICE_STRUCTURE = yaml.safe_load(file)`: the document is in place
\* and no packet of it has its fieldPositions.
ReloadAssign ==
    /\ built \in {-1, NPackets}
    /\ built' = 0
    /\ UNCHANGED <<QUEUE, recv_data, send_data, last_recv_age, pc,
                   signal_interval, mqtt_connected, elfin_auto_reboot, hist,
                   seen, since_reset, silence>>

\* `device[packet_type]['fieldPositions'] = field_positions` for the next
\* packet of the loop.
ReloadBuild ==
    /\ built \in 0..(NPackets - 1)
    /\ built' = built + 1
    /\ UNCHANGED <<QUEUE, recv_data, send_data, last_recv_age, pc,
                   signal_interval, mqtt_connected, elfin_auto_reboot, hist,
                   seen, since_reset, silence>>

\* The schema file was there at construction, or it was not.
InitSchema ==
    /\ QUEUE = <<>>
    /\ recv_data = {}
    /\ send_data = {}
    /\ last_recv_age = 0
    /\ pc = "tick"
    /\ signal_interval = 0
    /\ mqtt_connected = TRUE
    /\ elfin_auto_reboot = TRUE
    /\ hist = <<>>
    /\ seen = {}
    /\ since_reset = -1
    /\ built \in {-1, NPackets}
    /\ silence = -1

\* The requests of the schema specification.
SchemaRequests ==
    {[topics |-> Topics("Thermo", 1, "power"), value |-> "heat"],
     [topics |-> Topics("Thermo", 1, "setTemp"), value |-> "24"]}

NextSchema ==
    \/ ReloadAssign
    \/ ReloadBuild
    \/ \E req \in SchemaRequests : HaRequest(req)
    \/ \E raw \in Messages : OnMqttRecv(raw)

SpecSchema == InitSchema /\ [][NextSchema]_vars

\* ----------------------------------------------------------------- claims
InQueue(queue, u) == \E i \in DOMAIN queue : queue[i].uid = u

\* The command reached the confirmation threshold in the last tick that took it.
Confirmed(h) == h.received_count >= min_receive_count

\* The frames, among those ever held by recv_data, that match the command.
MatchingSeen(h) == {f \in seen : Matches(Encoded[h.request].expected_state, f)}

\* C1: a command that reached the confirmation threshold with its send count
\* below the ceiling is out of the queue, stays out of it, and is not
\* published again.
C1_ConfirmedLeavesOnce ==
    [][\A u \in DOMAIN hist :
          (Confirmed(hist[u]) /\ hist[u].count < max_send_count) =>
              /\ ~InQueue(QUEUE, u)
              /\ ~InQueue(QUEUE', u)
              /\ hist'[u].pubs = hist[u].pubs]_vars

\* A command was confirmed before the ceiling, after at least one retry.
C1_Witness ==
    \E u \in DOMAIN hist :
        /\ Confirmed(hist[u])
        /\ hist[u].count < max_send_count
        /\ hist[u].count > 1
        /\ hist[u].pubs = hist[u].count

\* C2 as stated: a command that has left the queue and that no frame ever
\* held by recv_data matches was published exactly max_send_count times and
\* was not confirmed.
C2_UnmatchedSentCeilingTimes ==
    \A u \in DOMAIN hist :
        (~InQueue(QUEUE, u) /\ MatchingSeen(hist[u]) = {}) =>
            /\ hist[u].pubs = max_send_count
            /\ ~Confirmed(hist[u])

\* C3 as stated: a confirmed command was matched by at least
\* min_receive_count distinct frames.
C3_ConfirmedByDistinctFrames ==
    \A u \in DOMAIN hist :
        Confirmed(hist[u]) => Cardinality(MatchingSeen(hist[u])) >= min_receive_count

\* C7: a command is published only when every command enqueued before it has
\* left the queue, and the queue holds the commands in the order of their
\* arrival.
C7_FifoWithRetryAtFront ==
    [][/\ \A u \in DOMAIN hist :
             hist'[u].pubs > hist[u].pubs =>
                 \A v \in 1..(u - 1) : ~InQueue(QUEUE, v)
       /\ \A i, j \in DOMAIN QUEUE' : i < j => QUEUE'[i].uid < QUEUE'[j].uid]_vars

\* The second command was published after the first was retried and left.
C7_Witness ==
    /\ Len(hist) = 2
    /\ hist[1].pubs > 1
    /\ hist[2].pubs > 0
    /\ InQueue(QUEUE, 2)

\* The encoding of a request fails, as C8 lists the cases: an unknown device
\* type, a command type the device has no encoding for, a schema symbol that
\* is missing, or make_climate_command returning its failure marker.
EncodingFails(req) ==
    LET enc == EncodeRequest(DEVICE_STRUCTURE, req.topics, req.value)
    IN  \/ enc.error
        \/ /\ req.topics.device = "Thermo"
           /\ enc.packet_hex = NoFrame

\* C8 as stated: no command in the queue's history comes from a request
\* whose encoding failed.
C8_NoCommandFromFailedEncoding ==
    \A u \in DOMAIN hist : ~EncodingFails(hist[u].request)

\* C9 as stated: a command whose publish step failed in the last tick that
\* took it is still in the queue.
C9_FailedPublishStaysQueued ==
    \A u \in DOMAIN hist :
        hist[u].last \in {"caught", "raised"} => InQueue(QUEUE, u)

C4_RemovedConfirmedOrAbandoned ==
    \A u \in DOMAIN hist :
        /\ hist[u].pubs <= max_send_count
        /\ ~InQueue(QUEUE, u) =>
               \/ Confirmed(hist[u])
               \/ hist[u].pubs = max_send_count

\* A pass of the tick loop that calls process_queue.
ProcessingTick ==
    \/ /\ pc = "tick"
       /\ last_recv_age > QuietMs
       /\ ~(elfin_auto_reboot /\ last_recv_age > elfin_reboot_interval)
       /\ pc' # "tick"
    \/ /\ pc = "reboot"
       /\ signal_interval > QuietMs
       /\ pc' # "reboot"

\* The part of C4 on termination: when processing ticks keep occurring, a
\* command in the queue leaves it.
C4_EveryCommandLeaves ==
    ([]<><<ProcessingTick>>_vars) =>
        \A u \in 1..MaxCommands : (InQueue(QUEUE, u) ~> ~InQueue(QUEUE, u))

\* C5: send_data and recv_data hold at most 100 frames each.
C5_RecentFramesCapped ==
    /\ Cardinality(recv_data) <= RecentCap
    /\ Cardinality(send_data) <= RecentCap

\* Both sets are full and each has lost a frame it held.
C5_Witness ==
    /\ Cardinality(recv_data) = RecentCap
    /\ Cardinality(send_data) = RecentCap
    /\ CapFrame(1) \notin recv_data
    /\ CapFrame(0) \notin send_data

C11_LaterFramesStillAdded ==
    [][\A raw \in WatchMessages :
          OnMqttRecv(raw) =>
              \A i \in DOMAIN raw :
                  raw[i] = checksum(SubSeq(raw[i], 1, 7)) => raw[i] \in recv_data']_vars

\* The positions of the Thermo packets, as the complete schema has them.
ThermoCommandPos == CommaxStructure.Thermo.command.fieldPositions
ThermoStatePos == CommaxStructure.Thermo.state.fieldPositions

\* The queued item is a thermostat power command whose value byte is not the
\* off code.
ThermoPowerNotOff(item) ==
    /\ item.sendcmd[1] = HexToInt(CommaxStructure.Thermo.command.header)
    /\ item.sendcmd[ThermoCommandPos["commandType"] + 1] =
           ValueOf(ThermoCommandStructure, ThermoCommandPos["commandType"], "power")
    /\ item.sendcmd[ThermoCommandPos["value"] + 1] #
           ValueOf(ThermoCommandStructure, ThermoCommandPos["value"], "off")

\* Position pos is among the required positions of the expected state.
Requires(expected_state, pos) ==
    \E i \in DOMAIN expected_state.required_bytes :
        expected_state.required_bytes[i] = pos

\* C12: for a thermostat power command whose value byte is not the off code,
\* the required positions of the expected state include the deviceId position
\* and the power position of the state packet, and the acceptable values at
\* the power position are exactly the idle and the heating code.
C12_ThermoOnExpectsIdleOrHeating ==
    \A i \in DOMAIN QUEUE :
        ThermoPowerNotOff(QUEUE[i]) =>
            LET e == QUEUE[i].expected_state
            IN  /\ Requires(e, ThermoStatePos["deviceId"])
                /\ Requires(e, ThermoStatePos["power"])
                /\ e.possible_values[ThermoStatePos["power"] + 1] =
                       {ThermoStateStructure[ThermoStatePos["power"]].values["idle"],
                        ThermoStateStructure[ThermoStatePos["power"]].values["heating"]}

\* A thermostat power-on command is queued with its expected state.
C12_Witness ==
    \E i \in DOMAIN QUEUE :
        /\ ThermoPowerNotOff(QUEUE[i])
        /\ hist[QUEUE[i].uid].request.value = "heat"
        /\ QUEUE[i].expected_state.ok

\* The value byte make_climate_command writes for a temperature change.
ChangeByte(device_id, t) ==
    make_climate_command(CommaxStructure, device_id, t, "commandCHANGE")
        [ThermoCommandPos["value"] + 1]

\* C13: for every temperature t of 0..99, decoding the value byte that
\* make_climate_command writes for a temperature change (the decimal digits
\* read as hex) by the rule of the thermostat state frames (the hex digits
\* read as decimal) gives t back; so it is for every queued setTemp request.
C13_TemperatureRoundTrip ==
    /\ \A t \in 0..99 : DecodeTemp(ChangeByte(1, t)) = t
    /\ \A i \in DOMAIN QUEUE :
           LET req == hist[QUEUE[i].uid].request
           IN  req.topics.state = "setTemp" =>
                   DecodeTemp(QUEUE[i].sendcmd[ThermoCommandPos["value"] + 1])
                       = Numerals[req.value]

\* A setTemp request is queued whose value byte is not the temperature itself.
C13_Witness ==
    \E i \in DOMAIN QUEUE :
        LET req == hist[QUEUE[i].uid].request
            b == QUEUE[i].sendcmd[ThermoCommandPos["value"] + 1]
        IN  /\ req.topics.state = "setTemp"
            /\ Numerals[req.value] = 24
            /\ b = 36
            /\ DecodeTemp(b) = 24

\* The positions and codes of the Light packets, as the complete schema has
\* them: command (header, deviceId, power), state (header, power, deviceId).
LightCommandPos == CommaxStructure.Light.command.fieldPositions
LightStatePos == CommaxStructure.Light.state.fieldPositions

\* The power ON request for Light idx.
LightOn(idx) == [topics |-> Topics("Light", idx, "power"), value |-> "ON"]

\* C14: a power ON request for Light idx appends exactly one Command at the
\* tail of the queue, with send count 0 and confirm count 0, whose expected
\* state requires position 0 to be the state header, the state deviceId
\* position to be idx and the state power position to be the on value.
C14_LightOnAppendsOneCommand ==
    [][\A idx \in {1, 2} :
          (DEVICE_STRUCTURE = CommaxStructure /\ HaRequest(LightOn(idx))) =>
              /\ Len(QUEUE') = Len(QUEUE) + 1
              /\ SubSeq(QUEUE', 1, Len(QUEUE)) = QUEUE
              /\ LET item == QUEUE'[Len(QUEUE')]
                     e == item.expected_state
                 IN  /\ item.count = 0
                     /\ item.received_count = 0
                     /\ Requires(e, 0)
                     /\ e.possible_values[1] = {CommaxStructure.Light.state.header}
                     /\ Requires(e, LightStatePos["deviceId"])
                     /\ e.possible_values[LightStatePos["deviceId"] + 1]
                            = {byte_to_hex_str(idx)}
                     /\ Requires(e, LightStatePos["power"])
                     /\ e.possible_values[LightStatePos["power"] + 1]
                            = {LightStateStructure[LightStatePos["power"]].values["on"]}]_vars

\* C15: a command frame is published by the queue only when more than 130 ms
\* have elapsed since the last inbound frame.
C15_PublishedOnlyAfterQuiet ==
    [][(\E u \in DOMAIN hist : hist'[u].pubs > hist[u].pubs) =>
          silence' > QuietMs]_vars

\* No frame of the message passes the checksum test.
NoValidFrame(raw) == \A i \in DOMAIN raw : raw[i] # checksum(raw[i])

\* C16: the time of the last valid frame is updated when and only when a
\* checksum-valid inbound frame is received: a message without any valid
\* frame leaves it as it is and does not postpone the watchdog.
C16_OnlyValidFramesPostpone ==
    [][\A raw \in WatchMessages :
          (NoValidFrame(raw) /\ OnMqttRecv(raw)) =>
              last_recv_age' = last_recv_age]_vars

\* The cooldown of the recovery action, on the clock of the model.
Cooldown == Elapse(0, RebootSleepMs)

\* C17: after the watchdog has invoked the recovery action, no Command is
\* published and no further watchdog check is made until the cooldown has
\* elapsed, whether the recovery succeeded or failed: the tick loop leaves
\* the recovery action only once the cooldown has passed since the reset.
C17_CooldownAfterRecovery ==
    [][(pc = "reboot" /\ pc' # "reboot") => since_reset' >= Cooldown]_vars

UnderCompleteSchema(req) ==
    process_ha_command(CommaxStructure, DeviceOrder, req.topics, req.value)

C20_NothingWithoutSchema ==
    [][built = -1 =>
          /\ recv_data' = recv_data
          /\ seen' = seen
          /\ last_recv_age' = last_recv_age
          /\ QUEUE' = QUEUE
          /\ \A req \in SchemaRequests :
                 generate_expected_state_packet(DEVICE_STRUCTURE, DeviceOrder,
                     UnderCompleteSchema(req).sendcmd) = NoExpected]_vars

\* A request was handled and refused while DEVICE_STRUCTURE was None, and
\* the schema has been loaded since.
C20_Witness ==
    /\ built = NPackets
    /\ QUEUE = <<>>
    /\ recv_data = {}
    /\ \E u \in DOMAIN hist :
           /\ hist[u].built = -1
           /\ hist[u].last = "refused"
           /\ UnderCompleteSchema(hist[u].request) # NoItem

\* The frame is long enough for every required position of the expected
\* state and carries, at each of them whose set of acceptable values is not
\* empty, one of these values.
FrameSatisfies(e, f) ==
    \A i \in DOMAIN e.required_bytes :
        /\ Len(f) > e.required_bytes[i]
        /\ e.possible_values[e.required_bytes[i] + 1] = {}
           \/ byte_to_hex_str(f[e.required_bytes[i] + 1])
                  \in e.possible_values[e.required_bytes[i] + 1]

\* C21: during a confirmation scan a received frame increments the confirm
\* count if and only if it satisfies every required position: the count
\* grows by the number of frames of recv_data that do, and a frame that fails
\* a required position adds nothing.
C21_CountsExactlySatisfyingFrames ==
    [][\A u \in DOMAIN hist :
          hist'[u].pubs > hist[u].pubs =>
              hist'[u].received_count - Head(QUEUE).received_count =
                  Cardinality({f \in recv_data :
                                  FrameSatisfies(Head(QUEUE).expected_state, f)})]_vars

\* A scan over a frame that satisfies the expected state and one that fails
\* at the power position has counted one frame.
C21_Witness ==
    /\ recv_data = {FrameIdle, FrameOff}
    /\ \E u \in DOMAIN hist :
           /\ hist[u].request = LiveRequest
           /\ hist[u].pubs = 1
           /\ hist[u].received_count = 1
           /\ FrameSatisfies(Encoded[LiveRequest].expected_state, FrameIdle)
           /\ ~FrameSatisfies(Encoded[LiveRequest].expected_state, FrameOff)

PublishedInStep == {u \in DOMAIN hist : hist'[u].pubs > hist[u].pubs}

Predictions == {i \in DOMAIN hist : hist[i].op = "predict"}

\* The device type of a command frame under schema k: "" for a frame of the
\* wrong length, with a pair that is not hex or with the header of no device.
KnownDevice(k, frame) ==
    IF Len(frame) # 8 \/ \E i \in DOMAIN frame : frame[i] \notin 0..255 THEN ""
    ELSE LET d == FindCommandDevice(Schemas[k].ds, Schemas[k].order, frame[1])
         IN  IF d = "KeyError" THEN "" ELSE d

\* The expected state e requires position pos with vals as its acceptable
\* values.
Marks(e, pos, vals) ==
    /\ \E j \in DOMAIN e.required_bytes : e.required_bytes[j] = pos
    /\ e.possible_values[pos + 1] = vals

\* C24: for every command frame of a known device type the predicted
\* expected state marks position 0 required with the state header of the
\* device as its only acceptable value, and the state deviceId position
\* required with the hex of the byte at the deviceId position of the command
\* as its only acceptable value.
C24_HeaderAndDeviceIdMarked ==
    \A i \in Predictions :
        LET k == hist[i].schema
            frame == hist[i].frame
            d == KnownDevice(k, frame)
        IN  d # "" =>
                LET dev == Schemas[k].ds[d]
                    e == hist[i].expected
                IN  /\ e.ok
                    /\ Marks(e, 0, {dev.state.header})
                    /\ Marks(e, Get(dev.state.fieldPositions, "deviceId", 2),
                             {byte_to_hex_str(
                                  frame[Get(dev.command.fieldPositions,
                                            "deviceId", 1) + 1])})

\* C25: in every expected state the predictor returns, a position has a
\* non-empty set of acceptable values exactly when it is one of the required
\* positions; a position that was not marked has the empty set and is not
\* required.
C25_ConstrainedIffRequired ==
    \A i \in Predictions :
        LET e == hist[i].expected
        IN  e.ok =>
                /\ Len(e.possible_values) = 7
                /\ \A pos \in 0..6 :
                       e.possible_values[pos + 1] # {}
                           <=> \E j \in DOMAIN e.required_bytes :
                                   e.required_bytes[j] = pos
                /\ \A j \in DOMAIN e.required_bytes : e.required_bytes[j] \in 0..6

\* The predictor has returned an expected state with three positions marked
\* and four left alone, and one with two marked.
C25_Witness ==
    /\ \E i \in Predictions :
           hist[i].expected.ok /\ Len(hist[i].expected.required_bytes) = 3
    /\ \E i \in Predictions :
           hist[i].expected.ok /\ Len(hist[i].expected.required_bytes) = 2

\* C26: for a Light or LightBreaker command the predictor marks the state
\* power position required with exactly one acceptable value, the off code of
\* the state when the power byte of the command is the off code of the
\* command schema and the on code of the state otherwise, also where the
\* power positions of command and state differ.
C26_LightPowerMarked ==
    \A i \in Predictions :
        LET k == hist[i].schema
            frame == hist[i].frame
            d == KnownDevice(k, frame)
        IN  d \in {"Light", "LightBreaker"} =>
                LET dev == Schemas[k].ds[d]
                    e == hist[i].expected
                    command_power_pos == Get(dev.command.fieldPositions, "power", 2)
                    state_power_pos == Get(dev.state.fieldPositions, "power", 1)
                    off == frame[command_power_pos + 1]
                               = ValueOf(dev.command.structure,
                                         command_power_pos, "off")
                IN  command_power_pos # state_power_pos =>
                        /\ e.ok
                        /\ Marks(e, state_power_pos,
                                 {dev.state.structure[state_power_pos].values[
                                      IF off THEN "off" ELSE "on"]})

\* C27: the predictor reports failure by returning the failure marker and
\* never by raising: a frame of the wrong length, a frame whose first byte is
\* the command header of no device, a frame that is not hex, and any frame
\* under a schema in which a device has no command packet, all give None.
C27_FailureIsReturnedNotRaised ==
    \A i \in Predictions :
        LET k == hist[i].schema
            frame == hist[i].frame
        IN  /\ "raised" \notin DOMAIN hist[i].expected
            /\ (\/ KnownDevice(k, frame) = ""
                \/ \E d \in DOMAIN Schemas[k].ds :
                       "command" \notin DOMAIN Schemas[k].ds[d])
                   => hist[i].expected = NoExpected

\* The decoded messages kept in hist.
Decodings == {i \in DOMAIN hist : hist[i].op = "decode"}

\* C28: an inbound frame that fails the checksum test is dropped: it is not
\* added to recv_data and no device event is emitted for it, so it is never
\* among the frames a confirmation scan counts.
C28_BadChecksumDropped ==
    \A i \in Decodings :
        \A n \in DOMAIN hist[i].raw :
            LET data == hist[i].raw[n]
            IN  data # checksum(data) =>
                    /\ \A r \in hist[i].recv : data \notin r
                    /\ \A j \in DOMAIN hist[i].events :
                           hist[i].events[j].frame # data

\* A message with a frame that fails the checksum test followed by a valid
\* frame has been decoded: the valid frame alone was added and gave an event.
C28_Witness ==
    \E i \in Decodings :
        /\ hist[i].raw = <<FrameBad, FrameOff>>
        /\ hist[i].recv = {{FrameOff}}
        /\ Len(hist[i].events) = 1
        /\ hist[i].events[1].frame = FrameOff

\* The loaded documents kept in hist.
Loadings == {i \in DOMAIN hist : hist[i].op = "load"}

\* C29: where one packet has the same name other than "empty" at two
\* positions, fieldPositions keeps the first position and the loading goes on
\* with the remaining fields, packet types and devices: every command and
\* state packet of the document gets fieldPositions, with every name other
\* than "empty" at its first position and without the name "empty".
C29_FirstPositionKept ==
    \A i \in Loadings :
        \A d \in DOMAIN hist[i].doc :
            \A t \in DOMAIN hist[i].doc[d] :
                LET structure == hist[i].doc[d][t].structure
                    packet == hist[i].schema[d][t]
                IN  /\ "fieldPositions" \in DOMAIN packet
                    /\ "empty" \notin DOMAIN packet.fieldPositions
                    /\ \A n \in DOMAIN packet.fieldPositions :
                           \E p \in DOMAIN structure : structure[p].name = n
                    /\ \A p \in DOMAIN structure :
                           structure[p].name # "empty" =>
                               /\ structure[p].name \in DOMAIN packet.fieldPositions
                               /\ packet.fieldPositions[structure[p].name] <= p
                               /\ structure[packet.fieldPositions[structure[p].name]].name
                                      = structure[p].name

\* The document with power at positions 2 and 3 of the Light command has been
\* loaded: power is at 2, the later field speed is at 5, and the packets
\* after it have their fieldPositions.
C29_Witness ==
    \E i \in Loadings :
        /\ hist[i].doc = DocumentWithRepeat
        /\ hist[i].schema.Light.command.fieldPositions
               = [deviceId |-> 1, power |-> 2, speed |-> 5]
        /\ hist[i].schema.Light.state.fieldPositions
               = CommaxStructure.Light.state.fieldPositions
        /\ hist[i].schema.Fan.state.fieldPositions
               = CommaxStructure.Fan.state.fieldPositions

\* C30: for every device type the device index of the event emitted for a
\* decoded state frame is the byte at the deviceId position of the state
\* schema in that frame, the index a command addresses the device by.
C30_EventIndexIsDeviceIdByte ==
    \A i \in Decodings :
        \A j \in DOMAIN hist[i].events :
            LET event == hist[i].events[j]
                fp == SchemaWithOutlet[event.device].state.fieldPositions
            IN  event.idx = event.frame[fp["deviceId"] + 1]

\* The frames of recv_data that satisfy the expected state of the request.
Satisfying(req) ==
    {f \in recv_data : FrameSatisfies(Encoded[req].expected_state, f)}

\* C31: the confirmation scan covers every frame that is in recv_data,
\* frames received before the Command was enqueued included: where all
\* frames are of that kind, the confirm count of a Command is its send count
\* times the number of the frames that satisfy its expected state, and a
\* Command is confirmed exactly when this reaches the threshold.
C31_StaleFramesAreCounted ==
    \A u \in DOMAIN hist :
        /\ hist[u].received_count
               = hist[u].count * Cardinality(Satisfying(hist[u].request))
        /\ hist[u].last = "confirmed" <=> Confirmed(hist[u])

\* A Command was confirmed by its first publication, through two frames that
\* were received before it was enqueued.
C31_Witness ==
    \E u \in DOMAIN hist :
        /\ hist[u].last = "confirmed"
        /\ hist[u].pubs = 1
        /\ hist[u].received_count = min_receive_count
        /\ Cardinality(Satisfying(hist[u].request)) = min_receive_count
        /\ ~InQueue(QUEUE, u)

\* The insertions kept in hist.
Insertions == {i \in DOMAIN hist : hist[i].op = "insert"}

\* C32: when an insertion makes a set of recent frames exceed RecentCap
\* members the oldest member is evicted, and the frame that was just
\* inserted is a member of the set afterwards.
C32_InsertedFrameStays ==
    \A i \in Insertions :
        \A gone \in hist[i].evicted :
            /\ hist[i].frame \notin gone
            /\ gone = {CapFrame(0)}

\* C33: between ticks every Command in the queue has a send count below the
\* ceiling and a confirm count below the threshold, and every Command that
\* process_ha_command has enqueued carries an expected state with at least
\* one required position.
C33_QueuedBelowLimits ==
    \A i \in DOMAIN QUEUE :
        /\ QUEUE[i].count < max_send_count
        /\ QUEUE[i].received_count < min_receive_count
        /\ QUEUE[i].expected_state.ok
        /\ QUEUE[i].expected_state.required_bytes # <<>>
        /\ \E pos \in DOMAIN QUEUE[i].expected_state.possible_values :
               QUEUE[i].expected_state.possible_values[pos] # {}

\* A Command is back in the queue one publication short of the ceiling and
\* one frame short of the threshold, with a fresh Command behind it.
C33_Witness ==
    /\ Len(QUEUE) = 2
    /\ QUEUE[1].count = max_send_count - 1
    /\ QUEUE[1].received_count = min_receive_count - 1
    /\ QUEUE[2].count = 0
    /\ QUEUE[2].received_count = 0

\* C34: the confirm count accumulates across ticks and every scan counts
\* each satisfying frame of recv_data again: a publication adds the number
\* of satisfying frames to the count the Command had; with one satisfying
\* frame in recv_data at each publication the Command is completed by the
\* publication that brings its send count to the threshold and by no other;
\* with at least threshold satisfying frames at the first publication it is
\* completed by that publication.
C34_CountAccumulatesAcrossTicks ==
    [][\A u \in PublishedInStep :
          LET n == Cardinality(Satisfying(hist[u].request))
          IN  /\ hist'[u].received_count = hist[u].received_count + n
              /\ (n = 1 /\ hist[u].received_count = hist[u].count) =>
                     (hist'[u].last = "confirmed"
                          <=> hist'[u].count = min_receive_count)
              /\ (hist[u].pubs = 0 /\ n >= min_receive_count) =>
                     /\ hist'[u].last = "confirmed"
                     /\ hist'[u].count = 1]_vars

\* A Command was completed by its second publication with one satisfying
\* frame ever received: the frame was counted by both scans.
C34_Witness ==
    \E u \in DOMAIN hist :
        /\ hist[u].last = "confirmed"
        /\ hist[u].pubs = min_receive_count
        /\ hist[u].received_count = min_receive_count
        /\ Cardinality({f \in seen :
               FrameSatisfies(Encoded[hist[u].request].expected_state, f)}) = 1

\* C35: the confirmation scan of a tick runs in the step of that tick's
\* publication and counts only frames that are in recv_data then: a confirm
\* count changes in no other step; a Command whose first publication finds no
\* satisfying frame is put back with a confirm count of 0; and a Command is
\* completed only by a publication, by its first one only when recv_data
\* held threshold satisfying frames at that moment.
C35_ScanCountsPoolAtPublication ==
    [][\A u \in DOMAIN hist :
          LET n == Cardinality(Satisfying(hist[u].request))
          IN  /\ hist'[u].received_count # hist[u].received_count =>
                     /\ u \in PublishedInStep
                     /\ recv_data' = recv_data
              /\ (u \in PublishedInStep /\ hist[u].pubs = 0 /\ n = 0) =>
                     /\ hist'[u].received_count = 0
                     /\ hist'[u].last = "requeued"
                     /\ InQueue(QUEUE', u)
              /\ (hist'[u].last = "confirmed" /\ hist[u].last # "confirmed") =>
                     /\ u \in PublishedInStep
                     /\ hist'[u].count = 1 => n >= min_receive_count]_vars

\* The first publication of a Command found no satisfying frame; two have
\* arrived since and are not counted: the Command waits in the queue for its
\* second publication.
C35_Witness ==
    \E u \in DOMAIN hist :
        /\ hist[u].pubs = 1
        /\ hist[u].last = "requeued"
        /\ hist[u].received_count = 0
        /\ InQueue(QUEUE, u)
        /\ Cardinality(Satisfying(hist[u].request)) = min_receive_count

\* C36: a Command is abandoned in the tick of the publication that brings its
\* send count to the ceiling, unless the scan of that tick completes it; a
\* frame that arrives later is never compared with it: an abandoned Command
\* is out of the queue and its counters stay as they are.
C36_AbandonedAtCeilingPublication ==
    [][\A u \in DOMAIN hist :
          /\ (u \in PublishedInStep /\ hist'[u].count = max_send_count
                 /\ ~Confirmed(hist'[u])) =>
                 /\ hist'[u].last = "abandoned"
                 /\ ~InQueue(QUEUE', u)
          /\ hist'[u].last = "abandoned" => hist'[u].count = max_send_count
          /\ hist[u].last = "abandoned" =>
                 /\ hist'[u] = hist[u]
                 /\ ~InQueue(QUEUE', u)]_vars

\* A Command was abandoned without a counted frame, and frames that satisfy
\* its expected state, which arrived after its last publication, are in
\* recv_data.
C36_Witness ==
    \E u \in DOMAIN hist :
        /\ hist[u].last = "abandoned"
        /\ hist[u].pubs = max_send_count
        /\ hist[u].received_count = 0
        /\ ~InQueue(QUEUE, u)
        /\ Cardinality(Satisfying(hist[u].request)) >= min_receive_count

\* C37: a Command is taken from the queue only by a tick that measured more
\* than 130 ms since the last inbound message, at a moment when that much had
\* passed: while the messages arrive less than 130 ms apart no tick measures
\* that much, nothing is published and the queue does not shrink.
C37_DispatchOnlyAfterQuietTick ==
    [][/\ (PublishedInStep # {} \/ Len(QUEUE') < Len(QUEUE)) =>
              \/ pc = "tick" /\ last_recv_age > QuietMs /\ silence > QuietMs
              \/ pc = "reboot" /\ signal_interval > QuietMs
       /\ (pc = "tick" /\ pc' = "reboot") =>
              /\ silence > QuietMs
              /\ signal_interval' = last_recv_age
       /\ (pc = "tick" /\ pc' # "tick" /\ silence <= QuietMs) =>
              /\ pc' = "tick_sleep"
              /\ QUEUE' = QUEUE
              /\ hist' = hist]_vars

\* The loop is in the sleep that follows a tick which measured 100 ms since
\* the last inbound message, and a Command waits unpublished.
C37_Witness ==
    /\ pc = "tick_sleep"
    /\ silence = 100
    /\ last_recv_age = 100
    /\ QUEUE # <<>>
    /\ \A u \in DOMAIN hist : hist[u].pubs = 0 /\ hist[u].last = "queued"

\* The value of a setTemp request is no number, or a number outside
\* [climate_min_temp, climate_max_temp].
BadSetTemp(req) ==
    /\ req.topics.device = "Thermo"
    /\ req.topics.state = "setTemp"
    /\ \/ req.value \notin DOMAIN Tenths
       \/ Tenths[req.value] < 10 * climate_min_temp
       \/ Tenths[req.value] > 10 * climate_max_temp

\* C38: a thermostat setTemp request whose value is not a number, or lies
\* outside [climate_min_temp, climate_max_temp], is refused: no Command is
\* enqueued for it, and no queued Command stems from it.
C38_BadSetTempRefused ==
    \A u \in DOMAIN hist :
        BadSetTemp(hist[u].request) =>
            /\ hist[u].last = "refused"
            /\ \A i \in DOMAIN QUEUE : QUEUE[i].uid # u

\* C39: with auto-recovery disabled the recovery action is never called; a
\* tick that finds the silence threshold exceeded sets the time of the last
\* frame to now and, in the same step and with no time passing, runs
\* process_queue on the queue as it stands.
C39_ManualWatchdogResetsAndGoesOn ==
    [][/\ pc' # "reboot"
       /\ (pc = "tick" /\ pc' # "tick" /\ last_recv_age > elfin_reboot_interval) =>
              /\ last_recv_age' = 0
              /\ silence' = silence
              /\ \E publish \in PublishOutcomes :
                     LET r == process_queue(QUEUE, recv_data, publish)
                     IN  /\ QUEUE' = r.QUEUE
                         /\ pc' = AfterQueue(r)
                         /\ r.kind # "empty" =>
                                /\ hist'[r.item.uid].last = r.kind
                                /\ hist'[r.item.uid].pubs =
                                       hist[r.item.uid].pubs
                                       + (IF r.published THEN 1 ELSE 0)]_vars

\* After 250 ms of silence a tick has reset the time of the last frame and
\* published, in the same step, the one Command there is for the first time.
C39_Witness ==
    /\ ~elfin_auto_reboot
    /\ pc = "queue_sleep"
    /\ silence = 250
    /\ last_recv_age = 0
    /\ Len(hist) = 1
    /\ hist[1].pubs = 1
    /\ hist[1].last = "requeued"

====
